---- MODULE Spec2Model ----
(***************************************************************************)
(* Verification model of the AguilautoOfficial web application: the        *)
(* invoice form (validation, amount computation, PDF blob handling), the   *)
(* sign-in flows, the manager and client portal views, the batched id      *)
(* lookup and the record enrichment.                                       *)
(*                                                                         *)
(* Numbers of the program are IEEE-754 binary64 values.  TLC integers are  *)
(* 32 bits wide, so a binary64 value is kept exactly as m * 2^e with the   *)
(* significand m an arbitrary-precision natural (little-endian limbs).     *)
(***************************************************************************)
EXTENDS Integers, Sequences, FiniteSets, TLC

(***************************************************************************)
(* Arbitrary-precision naturals: little-endian sequences of limbs, no      *)
(* leading (most significant) zero limb, zero is the empty sequence.       *)
(***************************************************************************)
LimbBase == 2^15

RECURSIVE NatBitLen(_)
NatBitLen(n) == IF n = 0 THEN 0 ELSE 1 + NatBitLen(n \div 2)

LimbBits == NatBitLen(LimbBase) - 1

RECURSIVE BigNorm(_)
BigNorm(a) ==
  IF a = <<>> THEN a
  ELSE IF a[Len(a)] = 0 THEN BigNorm(SubSeq(a, 1, Len(a) - 1)) ELSE a

RECURSIVE BigFromNat(_)
BigFromNat(n) ==
  IF n = 0 THEN <<>> ELSE <<n % LimbBase>> \o BigFromNat(n \div LimbBase)

RECURSIVE BigToNat(_)
BigToNat(a) ==
  IF a = <<>> THEN 0 ELSE a[1] + LimbBase * BigToNat(Tail(a))

RECURSIVE BigAddC(_, _, _)
BigAddC(a, b, c) ==
  IF a = <<>> /\ b = <<>> THEN (IF c = 0 THEN <<>> ELSE <<c>>)
  ELSE LET x == (IF a = <<>> THEN 0 ELSE Head(a))
                + (IF b = <<>> THEN 0 ELSE Head(b)) + c
       IN <<x % LimbBase>>
            \o BigAddC(IF a = <<>> THEN a ELSE Tail(a),
                       IF b = <<>> THEN b ELSE Tail(b),
                       x \div LimbBase)

BigAdd(a, b) == BigAddC(a, b, 0)

RECURSIVE BigMulSmallC(_, _, _)
BigMulSmallC(a, s, c) ==
  IF a = <<>> THEN BigFromNat(c)
  ELSE LET x == Head(a) * s + c
       IN <<x % LimbBase>> \o BigMulSmallC(Tail(a), s, x \div LimbBase)

\* a * s for 0 <= s < LimbBase
BigMulSmall(a, s) == IF s = 0 THEN <<>> ELSE BigMulSmallC(a, s, 0)

BigShiftLimb(a) == IF a = <<>> THEN a ELSE <<0>> \o a

RECURSIVE BigMul(_, _)
BigMul(a, b) ==
  IF b = <<>> \/ a = <<>> THEN <<>>
  ELSE BigAdd(BigMulSmall(a, Head(b)), BigShiftLimb(BigMul(a, Tail(b))))

\* quotient and remainder of a by s, 0 < s < LimbBase
RECURSIVE BigDivSmallR(_, _)
BigDivSmallR(a, s) ==
  IF a = <<>> THEN [q |-> <<>>, r |-> 0]
  ELSE LET hi == BigDivSmallR(Tail(a), s)
           x == hi.r * LimbBase + Head(a)
       IN [q |-> <<x \div s>> \o hi.q, r |-> x % s]

BigDivSmall(a, s) ==
  LET d == BigDivSmallR(a, s) IN [q |-> BigNorm(d.q), r |-> d.r]

RECURSIVE BigZeros(_)
BigZeros(n) == IF n = 0 THEN <<>> ELSE <<0>> \o BigZeros(n - 1)

\* a * 2^k
BigShiftLeft(a, k) ==
  IF a = <<>> THEN a
  ELSE BigZeros(k \div LimbBits) \o BigMulSmall(a, 2^(k % LimbBits))

\* floor(a / 2^k)
BigShiftRight(a, k) ==
  LET drop == k \div LimbBits
  IN IF drop >= Len(a) THEN <<>>
     ELSE BigDivSmall(SubSeq(a, drop + 1, Len(a)), 2^(k % LimbBits)).q

\* a mod 2^k # 0
BigLowBitsNonZero(a, k) ==
  LET drop == k \div LimbBits
  IN \/ \E i \in 1..Len(a) : i <= drop /\ a[i] # 0
     \/ drop < Len(a) /\ a[drop + 1] % 2^(k % LimbBits) # 0

BigIsOdd(a) == a # <<>> /\ a[1] % 2 = 1

BigBitLen(a) ==
  IF a = <<>> THEN 0 ELSE LimbBits * (Len(a) - 1) + NatBitLen(a[Len(a)])

(***************************************************************************)
(* IEEE-754 binary64 values >= 0, kept as [m, e] for m * 2^e with m odd    *)
(* (zero is m = <<>>, e = 0), so equal values are equal records.  The      *)
(* amounts of the program stay far from the subnormal and overflow ranges, *)
(* which are not modelled.                                                 *)
(***************************************************************************)
\* 52 stored bits and the implicit leading bit
SignificandBits == 52 + 1

DblZero == [m |-> <<>>, e |-> 0]

RECURSIVE NatTrailingZeros(_)
NatTrailingZeros(n) == IF n % 2 = 1 THEN 0 ELSE 1 + NatTrailingZeros(n \div 2)

RECURSIVE DblCanon(_, _)
DblCanon(m, e) ==
  IF m = <<>> THEN DblZero
  ELSE IF m[1] = 0 THEN DblCanon(Tail(m), e + LimbBits)
  ELSE LET tz == NatTrailingZeros(m[1])
       IN [m |-> BigShiftRight(m, tz), e |-> e + tz]

\* The binary64 value nearest to N * 2^e (+ a positive fraction of 2^e when
\* sticky), ties to even: the rounding of every arithmetic operation.
RoundToDouble(N, e, sticky) ==
  LET len == BigBitLen(N)
  IN IF len <= SignificandBits THEN DblCanon(N, e)
     ELSE LET sh == len - SignificandBits
              q2 == BigShiftRight(N, sh - 1)
              q == BigShiftRight(q2, 1)
              st == sticky \/ BigLowBitsNonZero(N, sh - 1)
              up == BigIsOdd(q2) /\ (st \/ BigIsOdd(q))
          IN DblCanon(IF up THEN BigAdd(q, <<1>>) ELSE q, e + sh)

\* x * y
DblMul(x, y) == RoundToDouble(BigMul(x.m, y.m), x.e + y.e, FALSE)

\* x + y
DblAdd(x, y) ==
  IF x.m = <<>> THEN y
  ELSE IF y.m = <<>> THEN x
  ELSE LET e == IF x.e < y.e THEN x.e ELSE y.e
       IN RoundToDouble(BigAdd(BigShiftLeft(x.m, x.e - e),
                               BigShiftLeft(y.m, y.e - e)), e, FALSE)

\* The binary64 value of the decimal numeral k / d (d = 100 or 1000): what
\* parseFloat, Number() and a numeric literal yield for that numeral.
DecScale == 2 * SignificandBits
DecToDouble(k, d) ==
  IF k = 0 THEN DblZero
  ELSE LET dv == BigDivSmall(BigShiftLeft(BigFromNat(k), DecScale), d)
       IN RoundToDouble(dv.q, 0 - DecScale, dv.r # 0)

\* Number.prototype.toFixed(2), as the number of hundredths n of its digits:
\* the integer n with n / 100 - x closest to zero, the larger n on a tie.
ToFixed2(x) ==
  IF x.m = <<>> THEN 0
  ELSE IF x.e >= 0 THEN BigToNat(BigShiftLeft(BigMulSmall(x.m, 100), x.e))
  ELSE LET k == 0 - x.e
           T == BigMulSmall(x.m, 200)
       IN BigToNat(BigShiftRight(BigAdd(T, BigShiftLeft(<<1>>, k)), k + 1))

\* parseFloat(x.toFixed(2))
ParseFixed2(x) == DecToDouble(ToFixed2(x), 100)

RECURSIVE BigCmpFrom(_, _, _)
BigCmpFrom(a, b, i) ==
  IF i = 0 THEN 0
  ELSE IF a[i] < b[i] THEN 0 - 1
  ELSE IF a[i] > b[i] THEN 1
  ELSE BigCmpFrom(a, b, i - 1)

\* -1, 0, 1 as a < b, a = b, a > b
BigCmp(a, b) ==
  IF Len(a) < Len(b) THEN 0 - 1
  ELSE IF Len(a) > Len(b) THEN 1
  ELSE BigCmpFrom(a, b, Len(a))

\* x >= y
DblGe(x, y) ==
  LET e == IF x.e < y.e THEN x.e ELSE y.e
  IN BigCmp(BigShiftLeft(x.m, x.e - e), BigShiftLeft(y.m, y.e - e)) >= 0

(***************************************************************************)
(* The invoice form (ManageInvoiceFormDialog).                             *)
(*                                                                         *)
(* A quantity or unit price typed into the form is a decimal numeral with  *)
(* up to three decimals, kept as its number of thousandths; Number() maps  *)
(* it to DecToDouble(n, 1000).  A stored amount is always                  *)
(* parseFloat(x.toFixed(2)), the binary64 value of a two-decimal numeral,  *)
(* kept as its number of hundredths n (the value is DecToDouble(n, 100)).  *)
(***************************************************************************)
VARIABLES
  invoices,         \* datastore collection "invoices": id -> document or NoDoc
  blobs,            \* blob store: the set of object paths that exist
  isManageInvoiceDialogOpen,
  invoiceToEdit,    \* the invoice the dialog edits (a snapshot), or Null
  formValues,       \* react-hook-form values of the dialog
  formErrors,       \* indexes of the line items the resolver rejected
  formListError,    \* the resolver's error on the item list itself
  isSubmitting,
  submitPc,         \* the await onSubmit is suspended at, "idle" when none runs
  updatedPdfPath,   \* onSubmit's local updatedPdfPath (updatedPdfUrl goes with it)
  submitOutcome,    \* how the last handleSubmit ended
  submitOps         \* blob operations and datastore writes issued by the last handleSubmit

invoiceVars ==
  <<invoices, blobs, isManageInvoiceDialogOpen, invoiceToEdit, formValues,
    formErrors, formListError, isSubmitting, submitPc, updatedPdfPath,
    submitOutcome, submitOps>>

Null == "null"
NoDoc == [exists |-> FALSE]
NoInvoice == [id |-> Null]
NullPath == <<>>

VAT_RATE_Hundredths == 21
VAT_RATE == DecToDouble(VAT_RATE_Hundredths, 100)

\* z.coerce.number().min(0.01): the bound of the quantity rule, in hundredths
MinQuantityHundredths == 1

MaxItems == 2

InvoiceIds == {"inv1"}
VehicleId == "veh1"
VehicleOwnerClientId == "u2"
InvoiceNumbers == {"F-1"}
PdfFiles == {Null, "scan.pdf"}

\* Line items a manager may type: [quantity, unitPrice] in thousandths.
ItemChoices ==
  { [quantity |-> 0,    unitPrice |-> 500],
    [quantity |-> 5,    unitPrice |-> 500],
    [quantity |-> 1000, unitPrice |-> 0 - 10],
    [quantity |-> 10,   unitPrice |-> 0],
    [quantity |-> 1000, unitPrice |-> 500],
    [quantity |-> 9000, unitPrice |-> 500],
    [quantity |-> 2000, unitPrice |-> 25555] }

ItemLists == UNION { [1..n -> ItemChoices] : n \in 0..MaxItems }

\* the invoice date typed into the form, as a day number
InvoiceDates == {1}

FormValueChoices ==
  [invoiceNumber : InvoiceNumbers, date : InvoiceDates,
   invoiceServices : ItemLists, pdfFile : PdfFiles, status : {"pending"}]

\* useForm defaultValues / form.reset(): one item, quantity 1, unit price 0
DefaultFormValues ==
  [invoiceNumber |-> "",
   date |-> 1,
   invoiceServices |-> <<[quantity |-> 1000, unitPrice |-> 0]>>,
   pdfFile |-> Null,
   status |-> "pending"]

\* invoiceServiceItemSchema: quantity >= 0.01 and unitPrice >= 0
ItemAccepted(item) ==
  /\ item.quantity >= 0
  /\ DblGe(DecToDouble(item.quantity, 1000),
           DecToDouble(MinQuantityHundredths, 100))
  /\ item.unitPrice >= 0

AcceptedItems == { item \in ItemChoices : ItemAccepted(item) }

\* manageInvoiceFormSchema, as zodResolver reports it
ItemErrors(values) ==
  { i \in 1..Len(values.invoiceServices) : values.invoiceServices[i] \notin AcceptedItems }

ListError(values) == Len(values.invoiceServices) < 1

FormValid(values) ==
  /\ values.invoiceNumber # ""
  /\ ~ListError(values)
  /\ ItemErrors(values) = {}

\* `invoice_pdfs/${vehicleId}/${invoiceNumber}-${file.name}`
PdfStoragePath(values) == <<"invoice_pdfs", VehicleId, values.invoiceNumber, values.pdfFile>>

\* processedServices: each item with total = parseFloat((q * p).toFixed(2))
ProcessedService(item) ==
  [quantity |-> item.quantity,
   unitPrice |-> item.unitPrice,
   total |-> ToFixed2(DblMul(DecToDouble(item.quantity, 1000),
                             DecToDouble(item.unitPrice, 1000)))]

ProcessedServices(values) ==
  [i \in 1..Len(values.invoiceServices) |-> ProcessedService(values.invoiceServices[i])]

\* processedServices.reduce((sum, item) => sum + item.total, 0)
RECURSIVE ReduceTotals(_, _)
ReduceTotals(services, n) ==
  IF n = 0 THEN DblZero
  ELSE DblAdd(ReduceTotals(services, n - 1), DecToDouble(services[n].total, 100))

SubtotalAmount(services) == ToFixed2(ReduceTotals(services, Len(services)))

VatAmount(subtotal) == ToFixed2(DblMul(DecToDouble(subtotal, 100), VAT_RATE))

TotalAmount(subtotal, vat) ==
  ToFixed2(DblAdd(DecToDouble(subtotal, 100), DecToDouble(vat, 100)))

\* finalPayload of onSubmit
FinalPayload(values, clientId, pdfPath) ==
  LET services == ProcessedServices(values)
      subtotalAmount == SubtotalAmount(services)
      vatAmount == VatAmount(subtotalAmount)
  IN [exists |-> TRUE,
      vehicleId |-> VehicleId,
      clientId |-> clientId,
      invoiceNumber |-> values.invoiceNumber,
      date |-> values.date,
      status |-> values.status,
      services |-> services,
      subtotalAmount |-> subtotalAmount,
      vatAmount |-> vatAmount,
      totalAmount |-> TotalAmount(subtotalAmount, vatAmount),
      pdfPath |-> pdfPath]

\* The dialog closed, as the page mounts it.
InvoiceFormIdle ==
  /\ isManageInvoiceDialogOpen = FALSE
  /\ invoiceToEdit = NoInvoice
  /\ formValues = DefaultFormValues
  /\ formErrors = {}
  /\ formListError = FALSE
  /\ isSubmitting = FALSE
  /\ submitPc = "idle"
  /\ updatedPdfPath = NullPath
  /\ submitOutcome = "none"
  /\ submitOps = 0

InvoiceInit ==
  /\ invoices = [id \in InvoiceIds |-> NoDoc]
  /\ blobs = {}
  /\ InvoiceFormIdle

isEditMode == invoiceToEdit # NoInvoice

handleOpenAddDialog ==
  /\ ~isManageInvoiceDialogOpen
  /\ invoiceToEdit' = NoInvoice
  /\ isManageInvoiceDialogOpen' = TRUE
  /\ formValues' = DefaultFormValues
  /\ formErrors' = {}
  /\ formListError' = FALSE
  /\ UNCHANGED <<invoices, blobs, isSubmitting, submitPc, updatedPdfPath,
                 submitOutcome, submitOps>>

handleOpenEditDialog(id) ==
  /\ ~isManageInvoiceDialogOpen
  /\ invoices[id] # NoDoc
  /\ invoiceToEdit' = [id |-> id, clientId |-> invoices[id].clientId,
                       pdfPath |-> invoices[id].pdfPath]
  /\ isManageInvoiceDialogOpen' = TRUE
  /\ formValues' = [invoiceNumber |-> invoices[id].invoiceNumber,
                    date |-> invoices[id].date,
                    invoiceServices |->
                      [i \in 1..Len(invoices[id].services) |->
                         [quantity |-> invoices[id].services[i].quantity,
                          unitPrice |-> invoices[id].services[i].unitPrice]],
                    pdfFile |-> Null,
                    status |-> invoices[id].status]
  /\ formErrors' = {}
  /\ formListError' = FALSE
  /\ UNCHANGED <<invoices, blobs, isSubmitting, submitPc, updatedPdfPath,
                 submitOutcome, submitOps>>

closeInvoiceDialog ==
  /\ isManageInvoiceDialogOpen
  /\ submitPc = "idle"
  /\ isManageInvoiceDialogOpen' = FALSE
  /\ invoiceToEdit' = NoInvoice
  /\ UNCHANGED <<invoices, blobs, formValues, formErrors, formListError,
                 isSubmitting, submitPc, updatedPdfPath, submitOutcome, submitOps>>

\* form.handleSubmit(onSubmit) on the values the manager typed: the resolver
\* runs first and onSubmit only on valid values, up to its first await.
handleSubmit(values) ==
  /\ isManageInvoiceDialogOpen
  /\ submitPc = "idle"
  /\ ~isSubmitting
  /\ formValues' = values
  /\ formErrors' = ItemErrors(values)
  /\ formListError' = ListError(values)
  /\ submitOps' = 0
  /\ IF ~FormValid(values)
     THEN /\ submitOutcome' = "rejected"
          /\ UNCHANGED <<invoices, blobs, isManageInvoiceDialogOpen, invoiceToEdit,
                         isSubmitting, submitPc, updatedPdfPath>>
     ELSE /\ submitOutcome' = "running"
          /\ isSubmitting' = TRUE
          /\ updatedPdfPath' =
               IF isEditMode THEN invoiceToEdit.pdfPath ELSE NullPath
          /\ submitPc' =
               IF values.pdfFile = Null THEN "write"
               ELSE IF isEditMode /\ invoiceToEdit.pdfPath # NullPath THEN "deleteObject"
               ELSE "uploadBytes"
          /\ UNCHANGED <<invoices, blobs, isManageInvoiceDialogOpen, invoiceToEdit>>

\* deleteObject(oldPdfRef) not awaited: the record is written without its
\* PDF while the delete is pending
deleteOldPdf_notAwaited ==
  /\ submitPc = "deleteObject"
  /\ invoices[invoiceToEdit.id] # NoDoc
  /\ invoices' =
       [invoices EXCEPT ![invoiceToEdit.id] =
          FinalPayload(formValues, invoiceToEdit.clientId, NullPath)]
  /\ UNCHANGED blobs
  /\ submitPc' = "uploadBytes"
  /\ submitOps' = submitOps + 1
  /\ UNCHANGED <<isManageInvoiceDialogOpen, invoiceToEdit, formValues,
                 formErrors, formListError, isSubmitting, updatedPdfPath, submitOutcome>>

\* await deleteObject(oldPdfRef): resolves, or rejects into the inner catch
deleteOldPdf ==
  /\ submitPc = "deleteObject"
  /\ \/ /\ invoiceToEdit.pdfPath \in blobs
        /\ blobs' = blobs \ {invoiceToEdit.pdfPath}
     \/ UNCHANGED blobs
  /\ submitPc' = "uploadBytes"
  /\ submitOps' = submitOps + 1
  /\ UNCHANGED <<invoices, isManageInvoiceDialogOpen, invoiceToEdit, formValues,
                 formErrors, formListError, isSubmitting, updatedPdfPath, submitOutcome>>

\* an upload whose catch clears the reference to the PDF
uploadPdf_clearingReference ==
  /\ submitPc = "uploadBytes"
  /\ submitOps' = submitOps + 1
  /\ \/ /\ blobs' = blobs \cup {PdfStoragePath(formValues)}
        /\ submitPc' = "getDownloadURL"
        /\ UNCHANGED updatedPdfPath
     \/ /\ UNCHANGED blobs
        /\ submitPc' = "write"
        /\ updatedPdfPath' = NullPath
  /\ UNCHANGED <<invoices, isManageInvoiceDialogOpen, invoiceToEdit, formValues,
                 formErrors, formListError, isSubmitting, submitOutcome>>

\* await uploadBytes(newPdfFileRef, file): resolves, or rejects into the catch
uploadPdf ==
  /\ submitPc = "uploadBytes"
  /\ submitOps' = submitOps + 1
  /\ \/ /\ blobs' = blobs \cup {PdfStoragePath(formValues)}
        /\ submitPc' = "getDownloadURL"
        /\ UNCHANGED updatedPdfPath
     \/ /\ UNCHANGED blobs
        /\ submitPc' = "write"
        /\ updatedPdfPath' = IF isEditMode THEN updatedPdfPath ELSE NullPath
  /\ UNCHANGED <<invoices, isManageInvoiceDialogOpen, invoiceToEdit, formValues,
                 formErrors, formListError, isSubmitting, submitOutcome>>

\* updatedPdfUrl = await getDownloadURL(newPdfFileRef); updatedPdfPath = newPdfStoragePath
getDownloadURL ==
  /\ submitPc = "getDownloadURL"
  /\ \/ updatedPdfPath' = PdfStoragePath(formValues)
     \/ updatedPdfPath' = IF isEditMode THEN updatedPdfPath ELSE NullPath
  /\ submitPc' = "write"
  /\ UNCHANGED <<invoices, blobs, isManageInvoiceDialogOpen, invoiceToEdit, formValues,
                 formErrors, formListError, isSubmitting, submitOutcome, submitOps>>

\* The amounts are computed, then await updateDoc / addDoc: on success
\* onInvoiceSaved, form.reset and closeDialog run; on failure the catch.
\* vehicleOwnerClientId is the clientId prop of the dialog.
writeInvoiceAs(vehicleOwnerClientId) ==
  /\ submitPc = "write"
  /\ submitPc' = "idle"
  /\ isSubmitting' = FALSE
  /\ updatedPdfPath' = NullPath
  /\ submitOps' = submitOps + 1
  /\ \/ /\ isEditMode
        /\ invoices[invoiceToEdit.id] # NoDoc
        /\ invoices' =
             [invoices EXCEPT ![invoiceToEdit.id] =
                FinalPayload(formValues, invoiceToEdit.clientId, updatedPdfPath)]
        /\ submitOutcome' = "saved"
        /\ formValues' = DefaultFormValues
        /\ isManageInvoiceDialogOpen' = FALSE
        /\ invoiceToEdit' = NoInvoice
     \/ /\ ~isEditMode
        /\ \E id \in DOMAIN invoices :
             /\ invoices[id] = NoDoc
             /\ invoices' =
                  [invoices EXCEPT ![id] =
                     FinalPayload(formValues, vehicleOwnerClientId, updatedPdfPath)]
        /\ submitOutcome' = "saved"
        /\ formValues' = DefaultFormValues
        /\ isManageInvoiceDialogOpen' = FALSE
        /\ invoiceToEdit' = NoInvoice
     \/ /\ submitOutcome' = "failed"
        /\ UNCHANGED <<invoices, formValues, isManageInvoiceDialogOpen, invoiceToEdit>>
  /\ UNCHANGED <<blobs, formErrors, formListError>>

writeInvoice == writeInvoiceAs(VehicleOwnerClientId)

(***************************************************************************)
(* Sign-in and registration (LoginForm, ManagerLoginForm) and the session. *)
(***************************************************************************)
VARIABLES
  accounts,     \* identity provider: the uids that have an account
  clients,      \* datastore collection "clients": uid -> document or NoDoc
  currentUser,  \* auth.currentUser: the uid of the session, or Null
  route,        \* the page the browser shows
  loginFlow,    \* the handler that ran last: "none" before any
  loginPc,      \* the await that handler is suspended at, "idle" when none runs
  loginUser,    \* its userCredential.user (uid), Null while it has none
  loginSnap,    \* its clientDocSnap
  clientSnap    \* createOrUpdateClientDocument's clientSnap

authVars ==
  <<accounts, clients, currentUser, route, loginFlow, loginPc, loginUser,
    loginSnap, clientSnap>>

Uids == {"u1", "u2"}
Roles == {"client", "manager"}
UpdatedAts == {"earlier", "now"}

IdentityDocuments == {Null, "12345678Z", "87654321X"}

ClientDocs ==
  [exists : {TRUE}, role : Roles, isActive : BOOLEAN, updatedAt : UpdatedAts,
   identityDocument : IdentityDocuments]

LoginPage == "/login"
ManagerLoginPage == "/manager/login"
ClientDashboard == "/client/dashboard"
ManagerDashboard == "/manager/dashboard"
ManagerVehiclePage == "/manager/vehicle/[id]"
ManagerInvoicesPage == "/manager/invoices"
ClientVehiclePage == "/client/vehicle/[id]"
HomePage == "/"
Portals ==
  {ClientDashboard, ManagerDashboard, ManagerVehiclePage, ManagerInvoicesPage,
   ClientVehiclePage}

\* newClientData of createOrUpdateClientDocument
newClientData ==
  [exists |-> TRUE, role |-> "client", isActive |-> FALSE, updatedAt |-> "now",
   identityDocument |-> Null]

\* setDoc(clientRef, updateData, {merge: true}): updateData has no role and
\* no isActive, a merge keeps the fields it does not name
MergeUpdateData(existing) == [existing EXCEPT !.updatedAt = "now"]

\* The accounts and records the application starts from: records are kept
\* under the uid of an account.
AuthInit ==
  /\ accounts \in SUBSET Uids
  /\ clients \in
       [Uids -> { d \in ClientDocs :
                    d.updatedAt = "earlier" /\ d.identityDocument = Null }
                  \cup {NoDoc}]
  /\ \A u \in Uids : clients[u] # NoDoc => u \in accounts
  /\ currentUser = Null
  /\ route = HomePage
  /\ loginFlow = "none"
  /\ loginPc = "idle"
  /\ loginUser = Null
  /\ loginSnap = NoDoc
  /\ clientSnap = NoDoc

\* A handler starts: the form is on its page and no handler of it runs.
StartFlow(flow, page) ==
  /\ loginPc = "idle"
  /\ loginFlow' = flow
  /\ route' = page
  /\ loginSnap' = NoDoc
  /\ clientSnap' = NoDoc

\* The handler returns or its catch ran: nothing else changes.
EndFlow == loginPc' = "idle"

\* LoginForm.onSubmit, authMode 'register', up to the result of
\* createUserWithEmailAndPassword.
LoginForm_onSubmit_register(u, namesGiven) ==
  /\ StartFlow("register", LoginPage)
  /\ \/ /\ ~namesGiven
        /\ EndFlow
        /\ loginUser' = Null
        /\ UNCHANGED <<accounts, currentUser>>
     \/ /\ namesGiven
        /\ u \notin accounts
        /\ accounts' = accounts \cup {u}
        /\ currentUser' = u
        /\ loginUser' = u
        /\ loginPc' = "createOrUpdate.getDoc"
     \/ /\ namesGiven
        /\ EndFlow
        /\ loginUser' = Null
        /\ UNCHANGED <<accounts, currentUser>>
  /\ UNCHANGED clients

\* LoginForm.onSubmit, authMode 'login', up to the result of
\* signInWithEmailAndPassword.
LoginForm_onSubmit_login(u) ==
  /\ StartFlow("login", LoginPage)
  /\ \/ /\ u \in accounts
        /\ currentUser' = u
        /\ loginUser' = u
        /\ loginPc' = "getDoc"
     \/ /\ EndFlow
        /\ loginUser' = Null
        /\ UNCHANGED currentUser
  /\ UNCHANGED <<accounts, clients>>

\* LoginForm.onSubmit, authMode 'login': await getDoc(clientDocRef) and the
\* branch on the snapshot.
LoginForm_onSubmit_getDoc ==
  /\ loginFlow = "login"
  /\ loginPc = "getDoc"
  /\ \/ /\ loginSnap' = clients[loginUser]
        /\ loginPc' = IF clients[loginUser] # NoDoc /\ ~clients[loginUser].isActive
                      THEN "signOut"
                      ELSE "createOrUpdate.getDoc"
     \/ /\ EndFlow
        /\ UNCHANGED loginSnap
  /\ UNCHANGED <<accounts, clients, currentUser, route, loginFlow, loginUser,
                 clientSnap>>

\* handleGoogleSignIn up to the result of signInWithPopup; the provider
\* makes the account of a first-time user.
handleGoogleSignIn(u) ==
  /\ StartFlow("google", LoginPage)
  /\ \/ /\ accounts' = accounts \cup {u}
        /\ currentUser' = u
        /\ loginUser' = u
        /\ loginPc' = "createOrUpdate.getDoc"
     \/ /\ EndFlow
        /\ loginUser' = Null
        /\ UNCHANGED <<accounts, currentUser>>
  /\ UNCHANGED clients

\* handleGoogleSignIn: await getDoc(clientDocRef) and the branch on it.
handleGoogleSignIn_getDoc ==
  /\ loginFlow = "google"
  /\ loginPc = "getDoc"
  /\ \/ /\ loginSnap' = clients[loginUser]
        /\ IF clients[loginUser] # NoDoc /\ clients[loginUser].isActive
           THEN /\ route' = ClientDashboard
                /\ EndFlow
           ELSE /\ loginPc' = "signOut"
                /\ UNCHANGED route
     \/ /\ EndFlow
        /\ UNCHANGED <<loginSnap, route>>
  /\ UNCHANGED <<accounts, clients, currentUser, loginFlow, loginUser, clientSnap>>

\* createOrUpdateClientDocument: await getDoc(clientRef); a failure is
\* rethrown to the caller's catch.
createOrUpdateClientDocument_getDoc ==
  /\ loginPc = "createOrUpdate.getDoc"
  /\ \/ /\ clientSnap' = clients[loginUser]
        /\ loginPc' = "createOrUpdate.setDoc"
     \/ /\ EndFlow
        /\ UNCHANGED clientSnap
  /\ UNCHANGED <<accounts, clients, currentUser, route, loginFlow, loginUser,
                 loginSnap>>

\* createOrUpdateClientDocument: await setDoc, of the new record when the
\* snapshot had none and merged otherwise, and what the caller does on its
\* return up to the caller's next await.
createOrUpdateClientDocument_setDoc ==
  /\ loginPc = "createOrUpdate.setDoc"
  /\ \/ /\ clients' =
             [clients EXCEPT ![loginUser] =
                IF clientSnap = NoDoc THEN newClientData
                ELSE MergeUpdateData(clients[loginUser])]
        /\ CASE loginFlow = "register" ->
                  /\ EndFlow
                  /\ UNCHANGED route
             [] loginFlow = "login" /\ loginSnap # NoDoc ->
                  /\ route' = ClientDashboard
                  /\ EndFlow
             [] loginFlow = "login" /\ loginSnap = NoDoc ->
                  /\ loginPc' = "signOut"
                  /\ UNCHANGED route
             [] loginFlow = "google" ->
                  /\ loginPc' = "getDoc"
                  /\ UNCHANGED route
     \/ /\ EndFlow
        /\ UNCHANGED <<clients, route>>
  /\ UNCHANGED <<accounts, currentUser, loginFlow, loginUser, loginSnap,
                 clientSnap>>

\* await auth.signOut() of LoginForm, then the toast.
LoginForm_signOut ==
  /\ loginPc = "signOut"
  /\ currentUser' = Null
  /\ EndFlow
  /\ UNCHANGED <<accounts, clients, route, loginFlow, loginUser, loginSnap,
                 clientSnap>>

\* ManagerLoginForm.onSubmit up to the result of signInWithEmailAndPassword.
ManagerLoginForm_onSubmit(u) ==
  /\ StartFlow("manager", ManagerLoginPage)
  /\ \/ /\ u \in accounts
        /\ currentUser' = u
        /\ loginUser' = u
        /\ loginPc' = "getDoc"
     \/ /\ EndFlow
        /\ loginUser' = Null
        /\ UNCHANGED currentUser
  /\ UNCHANGED <<accounts, clients>>

\* ManagerLoginForm.onSubmit: await getDoc(clientDocRef) and the branch on
\* the record's role.
ManagerLoginForm_onSubmit_getDoc ==
  /\ loginFlow = "manager"
  /\ loginPc = "getDoc"
  /\ EndFlow
  /\ \/ /\ loginSnap' = clients[loginUser]
        /\ route' = IF clients[loginUser] # NoDoc /\ clients[loginUser].role = "manager"
                    THEN ManagerDashboard
                    ELSE route
     \/ UNCHANGED <<loginSnap, route>>
  /\ UNCHANGED <<accounts, clients, currentUser, loginFlow, loginUser, clientSnap>>

\* handleLogout of the portal headers.
handleLogout ==
  /\ route \in Portals
  /\ currentUser # Null
  /\ currentUser' = Null
  /\ route' = HomePage
  /\ UNCHANGED <<accounts, clients, loginFlow, loginPc, loginUser, loginSnap,
                 clientSnap>>

(***************************************************************************)
(* The rest of the datastore, and what a read of it returns.               *)
(***************************************************************************)
VARIABLES
  vehicles,          \* datastore collection "vehicles": id -> document or NoDoc
  maintenanceItems   \* datastore collection "maintenanceItems"

dataVars == <<vehicles, maintenanceItems>>

VehicleIds == {"veh1", "veh2"}
MaintenanceIds == {"mnt1"}
ListedInvoiceIds == {"inv1", "inv2"}

\* Document ids in the order the datastore returns them when a query names no
\* other order.
IdOrder ==
  <<"i01", "i02", "i03", "i04", "i05", "i06", "i07", "i08", "i09", "i10",
    "i11", "i12", "i13", "i14", "i15", "i16", "i17", "i18", "i19", "i20",
    "i21", "inv1", "inv2", "mnt1", "u1", "u2",
    "v01", "v02", "v03", "v04", "v05", "v06", "v07", "v08", "v09", "v10",
    "v11", "v12", "veh1", "veh2">>

NA == "N/A"

Range(s) == { s[i] : i \in DOMAIN s }

\* { id: docSnap.id, ...docSnap.data() }
WithId(id, data) == [id |-> id] @@ data

\* snapshot.docs of a query on a collection: the documents that exist and
\* match, in id order.
SnapshotDocs(coll, Matches(_)) ==
  LET ids == SelectSeq(IdOrder,
                       LAMBDA id : /\ id \in DOMAIN coll
                                   /\ coll[id] # NoDoc
                                   /\ Matches(coll[id]))
  IN [i \in 1..Len(ids) |-> WithId(ids[i], coll[ids[i]])]

AnyDoc(d) == TRUE

\* Array.prototype.sort((a, b) => key(b) - key(a)): descending and stable.
SortDescBy(s, key(_)) ==
  LET n == Len(s)
      rank(i) == 1 + Cardinality({ j \in 1..n :
                                     \/ key(s[j]) > key(s[i])
                                     \/ key(s[j]) = key(s[i]) /\ j < i })
  IN [p \in 1..n |-> s[CHOOSE i \in 1..n : rank(i) = p]]

createdAtOf(d) == d.createdAt
dateOf(d) == d.date

\* `${firstName} ${lastName}` and email of a client, `${make} ${model}
\* (${licensePlate})` of a vehicle: text kept in the record, one per id.
FullName(id) == IF id = "u1" THEN "Ana Gil" ELSE "Luis Ruiz"
Email(id) == IF id = "u1" THEN "ana@example.com" ELSE "luis@example.com"
VehicleIdentifier(id) == IF id = "veh1" THEN "Seat Ibiza (1111AAA)" ELSE "Ford Focus (2222BBB)"

VehicleDocs ==
  [exists : {TRUE}, ownerId : Uids, createdAt : 1..2]

MaintenanceDocs ==
  [exists : {TRUE}, vehicleId : VehicleIds, clientId : Uids, createdAt : {1}]

\* An invoice as the invoice form saves it.
SavedInvoice(vehicleId, clientId, date) ==
  [FinalPayload(DefaultFormValues, clientId, NullPath)
     EXCEPT !.vehicleId = vehicleId, !.date = date]

(***************************************************************************)
(* The views.  The state of a page is one record, its fields the page's    *)
(* useState variables, the await its load routine is suspended at (pc) and *)
(* the routine's locals; an unmounted page has its initial state.          *)
(***************************************************************************)
VARIABLES
  managerDashboard,  \* ManagerDashboardPage
  managerVehicle,    \* ManagerVehicleDetailPage
  managerInvoices,   \* ManagerInvoicesPage
  batch,             \* getDocumentsInBatches
  clientVehicle,     \* ClientVehicleDetailPage
  managerClients     \* ManagerClientsPage

pageVars ==
  <<managerDashboard, managerVehicle, managerInvoices, batch, clientVehicle,
    managerClients>>

\* useState of ManagerClientsPage
ManagerClientsUnmounted ==
  [pc |-> "unmounted", clients |-> <<>>, isLoading |-> TRUE,
   searchTerm |-> <<>>, currentPage |-> 1,
   isConfirmToggleActiveDialogOpen |-> FALSE, clientToToggleActive |-> NoDoc,
   togglePc |-> "idle"]

(***************************************************************************)
(* ManagerDashboardPage.                                                   *)
(***************************************************************************)
ManagerDashboardUnmounted ==
  [pc |-> "unmounted", currentUser |-> Null, clients |-> <<>>,
   allVehicles |-> <<>>, isLoading |-> TRUE,
   clientsData |-> <<>>, vehiclesData |-> <<>>,
   searchTerm |-> <<>>, currentPage |-> 1,
   isAddVehicleDialogOpen |-> FALSE, submitPc |-> "idle", ownerId |-> Null]

\* enrichedVehicles with an empty text where the owner is missing
EnrichVehicle_blank(vehicle, clientsData) ==
  LET found == { c \in Range(clientsData) : c.id = vehicle.ownerId }
  IN vehicle @@
     [ownerName |-> IF found # {} THEN FullName(vehicle.ownerId) ELSE "",
      ownerDni |-> "", clientEmail |-> ""]

\* enrichedVehicles of fetchData, one vehicle
EnrichVehicle(vehicle, clientsData) ==
  LET found == { c \in Range(clientsData) : c.id = vehicle.ownerId }
      owner == CHOOSE c \in found : TRUE
  IN vehicle @@
     [ownerName |-> IF found # {} THEN FullName(owner.id) ELSE NA,
      ownerDni |-> IF found # {} /\ owner.identityDocument # Null
                   THEN owner.identityDocument ELSE NA,
      clientEmail |-> IF found # {} THEN Email(owner.id) ELSE NA]

\* enrichedVehicles.sort(...) of fetchData
EnrichedVehicles(vehiclesData, clientsData) ==
  SortDescBy([i \in 1..Len(vehiclesData) |->
                EnrichVehicle(vehiclesData[i], clientsData)],
             createdAtOf)

\* onAuthStateChanged's callback, and fetchData(user) up to its first await.
ManagerDashboardPage_onAuthStateChanged ==
  /\ managerDashboard.pc = "onAuthStateChanged"
  /\ managerDashboard' =
       IF currentUser # Null
       THEN [managerDashboard EXCEPT !.currentUser = currentUser,
                                     !.isLoading = TRUE,
                                     !.clientsData = <<>>,
                                     !.vehiclesData = <<>>,
                                     !.pc = "getDocs.clients"]
       ELSE [managerDashboard EXCEPT !.currentUser = Null,
                                     !.isLoading = FALSE,
                                     !.allVehicles = <<>>,
                                     !.clients = <<>>,
                                     !.pc = "idle"]

\* fetchData's catch and finally
fetchData_catch(page) ==
  [page EXCEPT !.allVehicles = <<>>, !.clients = <<>>, !.isLoading = FALSE,
               !.pc = "idle"]

\* fetchData: await getDocs(collection(db, "clients"))
fetchData_clients ==
  /\ managerDashboard.pc = "getDocs.clients"
  /\ \/ managerDashboard' =
          [managerDashboard EXCEPT
             !.clientsData = SnapshotDocs(clients, AnyDoc),
             !.clients = SnapshotDocs(clients, AnyDoc),
             !.pc = "getDocs.vehicles"]
     \/ managerDashboard' = fetchData_catch(managerDashboard)

\* fetchData: await getDocs(collection(db, "vehicles")), the enrichment and
\* the sort
fetchData_vehicles ==
  /\ managerDashboard.pc = "getDocs.vehicles"
  /\ \/ managerDashboard' =
          [managerDashboard EXCEPT
             !.vehiclesData = SnapshotDocs(vehicles, AnyDoc),
             !.allVehicles =
                EnrichedVehicles(SnapshotDocs(vehicles, AnyDoc),
                                 managerDashboard.clientsData),
             !.isLoading = FALSE,
             !.pc = "idle"]
     \/ managerDashboard' = fetchData_catch(managerDashboard)

(***************************************************************************)
(* ManagerVehicleDetailPage.                                               *)
(***************************************************************************)
AllLoading(b) == [vehicle |-> b, owner |-> b, invoices |-> b, maintenance |-> b]
NoFetchErrors ==
  [vehicle |-> Null, owner |-> Null, invoices |-> Null, maintenance |-> Null]

ManagerVehicleUnmounted ==
  [pc |-> "unmounted", vehicleId |-> Null, currentUser |-> Null,
   authLoading |-> TRUE, vehicleData |-> NoDoc, ownerData |-> NoDoc,
   invoices |-> <<>>, maintenanceItems |-> <<>>,
   dataLoading |-> AllLoading(TRUE), fetchErrors |-> NoFetchErrors]

\* onAuthStateChanged's callback up to its first await
ManagerVehicleDetailPage_onAuthStateChanged ==
  /\ managerVehicle.pc = "onAuthStateChanged"
  /\ managerVehicle' =
       IF currentUser # Null
       THEN [managerVehicle EXCEPT !.currentUser = currentUser,
                                   !.authLoading = FALSE,
                                   !.dataLoading = AllLoading(TRUE),
                                   !.fetchErrors = NoFetchErrors,
                                   !.vehicleData = NoDoc,
                                   !.ownerData = NoDoc,
                                   !.invoices = <<>>,
                                   !.maintenanceItems = <<>>,
                                   !.pc = "getDoc.vehicle"]
       ELSE [managerVehicle EXCEPT !.currentUser = Null,
                                   !.authLoading = FALSE,
                                   !.dataLoading = AllLoading(FALSE),
                                   !.pc = "idle"]

\* await getDoc(vehicleDocRef)
ManagerVehicleDetailPage_getVehicle ==
  /\ managerVehicle.pc = "getDoc.vehicle"
  /\ LET id == managerVehicle.vehicleId
     IN \/ /\ vehicles[id] # NoDoc
           /\ vehicles[id].ownerId # Null
           /\ managerVehicle' =
                [managerVehicle EXCEPT
                   !.vehicleData = WithId(id, vehicles[id]),
                   !.dataLoading.vehicle = FALSE,
                   !.pc = "getDoc.owner"]
        \/ /\ vehicles[id] # NoDoc
           /\ vehicles[id].ownerId = Null
           /\ managerVehicle' =
                [managerVehicle EXCEPT
                   !.vehicleData = WithId(id, vehicles[id]),
                   !.dataLoading.vehicle = FALSE,
                   !.fetchErrors.owner = "errorLoadingOwner (Vehiculo no tiene ownerId)",
                   !.dataLoading.owner = FALSE,
                   !.pc = "getDocs.invoices"]
        \/ /\ vehicles[id] = NoDoc
           /\ managerVehicle' =
                [managerVehicle EXCEPT
                   !.fetchErrors.vehicle = "vehicleNotFoundDescription",
                   !.dataLoading = AllLoading(FALSE),
                   !.pc = "idle"]
        \/ managerVehicle' =
             [managerVehicle EXCEPT
                !.fetchErrors.vehicle = "errorLoadingVehicle",
                !.dataLoading = AllLoading(FALSE),
                !.pc = "idle"]

\* await getDoc(ownerDocRef), its catch and finally
ManagerVehicleDetailPage_getOwner ==
  /\ managerVehicle.pc = "getDoc.owner"
  /\ LET ownerId == managerVehicle.vehicleData.ownerId
     IN \/ /\ clients[ownerId] # NoDoc
           /\ managerVehicle' =
                [managerVehicle EXCEPT
                   !.ownerData = WithId(ownerId, clients[ownerId]),
                   !.dataLoading.owner = FALSE,
                   !.pc = "getDocs.invoices"]
        \/ /\ clients[ownerId] = NoDoc
           /\ managerVehicle' =
                [managerVehicle EXCEPT
                   !.fetchErrors.owner = "errorLoadingOwner",
                   !.dataLoading.owner = FALSE,
                   !.pc = "getDocs.invoices"]
        \/ managerVehicle' =
             [managerVehicle EXCEPT
                !.fetchErrors.owner = "errorLoadingOwner (Code)",
                !.dataLoading.owner = FALSE,
                !.pc = "getDocs.invoices"]

\* a read of the invoices whose failure ends the routine and drops the vehicle
ManagerVehicleDetailPage_getInvoices_aborting ==
  /\ managerVehicle.pc = "getDocs.invoices"
  /\ LET OfVehicle(d) == d.vehicleId = managerVehicle.vehicleId
     IN \/ managerVehicle' =
             [managerVehicle EXCEPT
                !.invoices = SortDescBy(SnapshotDocs(invoices, OfVehicle), dateOf),
                !.dataLoading.invoices = FALSE,
                !.pc = "getDocs.maintenance"]
        \/ managerVehicle' =
             [managerVehicle EXCEPT
                !.fetchErrors.invoices = "errorLoadingInvoices (Code)",
                !.vehicleData = NoDoc,
                !.dataLoading = AllLoading(FALSE),
                !.pc = "idle"]

\* await getDocs(invoicesQuery), the sort, its catch and finally
ManagerVehicleDetailPage_getInvoices ==
  /\ managerVehicle.pc = "getDocs.invoices"
  /\ LET OfVehicle(d) == d.vehicleId = managerVehicle.vehicleId
     IN \/ managerVehicle' =
             [managerVehicle EXCEPT
                !.invoices = SortDescBy(SnapshotDocs(invoices, OfVehicle), dateOf),
                !.dataLoading.invoices = FALSE,
                !.pc = "getDocs.maintenance"]
        \/ managerVehicle' =
             [managerVehicle EXCEPT
                !.fetchErrors.invoices = "errorLoadingInvoices (Code)",
                !.dataLoading.invoices = FALSE,
                !.pc = "getDocs.maintenance"]

\* await getDocs(maintenanceQuery), the sort, its catch and finally
ManagerVehicleDetailPage_getMaintenance ==
  /\ managerVehicle.pc = "getDocs.maintenance"
  /\ LET OfVehicle(d) == d.vehicleId = managerVehicle.vehicleId
     IN \/ managerVehicle' =
             [managerVehicle EXCEPT
                !.maintenanceItems =
                   SortDescBy(SnapshotDocs(maintenanceItems, OfVehicle), createdAtOf),
                !.dataLoading.maintenance = FALSE,
                !.pc = "idle"]
        \/ managerVehicle' =
             [managerVehicle EXCEPT
                !.fetchErrors.maintenance = "errorLoadingMaintenance (Code)",
                !.dataLoading.maintenance = FALSE,
                !.pc = "idle"]

(***************************************************************************)
(* getDocumentsInBatches and ManagerInvoicesPage.                          *)
(***************************************************************************)
FIRESTORE_IN_CLAUSE_LIMIT == 30

Min(a, b) == IF a < b THEN a ELSE b

\* Array.prototype.slice(from, to), indexes from 0
Slice(s, from, to) == SubSeq(s, from + 1, Min(to, Len(s)))

\* idChunks with a step one too long
RECURSIVE IdChunksFrom_skipping(_, _)
IdChunksFrom_skipping(ids, i) ==
  IF i < Len(ids)
  THEN <<Slice(ids, i, i + FIRESTORE_IN_CLAUSE_LIMIT)>>
         \o IdChunksFrom_skipping(ids, i + FIRESTORE_IN_CLAUSE_LIMIT + 1)
  ELSE <<>>

\* idChunks: for (let i = 0; i < ids.length; i += FIRESTORE_IN_CLAUSE_LIMIT)
RECURSIVE IdChunksFrom(_, _)
IdChunksFrom(ids, i) ==
  IF i < Len(ids)
  THEN <<Slice(ids, i, i + FIRESTORE_IN_CLAUSE_LIMIT)>>
         \o IdChunksFrom(ids, i + FIRESTORE_IN_CLAUSE_LIMIT)
  ELSE <<>>

\* The collection of a name.
Collection(collectionName) ==
  CASE collectionName = "vehicles" -> vehicles
    [] collectionName = "clients" -> clients

\* a resultsMap that keeps the last snapshot only
MergeSnapshot_replacing(resultsMap, coll, chunk) ==
  LET found == { id \in Range(chunk) : id \in DOMAIN coll /\ coll[id] # NoDoc }
  IN [id \in found |-> WithId(id, coll[id])]

\* snapshot.docs.forEach(docSnap => resultsMap.set(docSnap.id, ...)) for the
\* snapshot of where(documentId(), "in", chunk)
MergeSnapshot(resultsMap, coll, chunk) ==
  LET found == { id \in Range(chunk) : id \in DOMAIN coll /\ coll[id] # NoDoc }
  IN [id \in (DOMAIN resultsMap) \cup found |->
        IF id \in found THEN WithId(id, coll[id]) ELSE resultsMap[id]]

BatchIdle ==
  [pc |-> "idle", collectionName |-> Null, ids |-> <<>>, idChunks |-> <<>>,
   resultsMap |-> <<>>, queries |-> <<>>]

\* getDocumentsInBatches(collectionName, ids) up to its first await; queries
\* is the list of the "in" queries it has issued.
getDocumentsInBatches(collectionName, ids) ==
  [pc |-> IF Len(ids) = 0 THEN "returned" ELSE "query",
   collectionName |-> collectionName,
   ids |-> ids,
   idChunks |-> IF Len(ids) = 0 THEN <<>> ELSE IdChunksFrom(ids, 0),
   resultsMap |-> <<>>,
   queries |-> <<>>]

\* One turn of for (const chunk of idChunks): await getDocs(q).  The
\* datastore rejects an "in" clause of more than 30 values.
getDocumentsInBatches_query ==
  /\ batch.pc = "query"
  /\ LET chunk == Head(batch.idChunks)
         rest == Tail(batch.idChunks)
     IN IF Len(chunk) > 0
        THEN \/ /\ Len(chunk) <= 30
                /\ batch' =
                     [batch EXCEPT
                        !.queries = Append(@, chunk),
                        !.resultsMap =
                           MergeSnapshot(@, Collection(batch.collectionName), chunk),
                        !.idChunks = rest,
                        !.pc = IF rest = <<>> THEN "returned" ELSE "query"]
             \/ batch' = [batch EXCEPT !.queries = Append(@, chunk),
                                       !.pc = "failed"]
        ELSE batch' = [batch EXCEPT !.idChunks = rest,
                                    !.pc = IF rest = <<>> THEN "returned" ELSE "query"]

ManagerInvoicesUnmounted ==
  [pc |-> "unmounted", allInvoices |-> <<>>, clients |-> <<>>,
   isLoading |-> TRUE, invoicesData |-> <<>>, allClientsData |-> <<>>,
   outcome |-> "none",
   filterStatus |-> "all", filterClient |-> "all", currentPage |-> 1,
   invoiceToDelete |-> NoDoc, isConfirmDeleteOpen |-> FALSE,
   deletePc |-> "idle"]

\* Array.from(new Set(list)): the first occurrence of each value, in order
RECURSIVE Unique(_)
Unique(list) ==
  IF list = <<>> THEN <<>>
  ELSE LET front == Unique(SubSeq(list, 1, Len(list) - 1))
           last == list[Len(list)]
       IN IF last \in Range(front) THEN front ELSE Append(front, last)

uniqueVehicleIds(invoicesData) ==
  Unique([i \in 1..Len(invoicesData) |-> invoicesData[i].vehicleId])

\* enrichedInvoicesData, one invoice
EnrichInvoice(invoice, allClientsData, vehiclesMap) ==
  invoice @@
  [clientName |->
     IF \E c \in Range(allClientsData) : c.id = invoice.clientId
     THEN FullName(invoice.clientId) ELSE NA,
   vehicleIdentifier |->
     IF invoice.vehicleId \in DOMAIN vehiclesMap
     THEN VehicleIdentifier(invoice.vehicleId) ELSE NA]

enrichedInvoicesData(invoicesData, allClientsData, vehiclesMap) ==
  [i \in 1..Len(invoicesData) |->
     EnrichInvoice(invoicesData[i], allClientsData, vehiclesMap)]

\* fetchInvoicesData: await getDocs(invoices ordered by date, descending)
fetchInvoicesData_invoices ==
  /\ managerInvoices.pc = "getDocs.invoices"
  /\ \/ managerInvoices' =
          [managerInvoices EXCEPT
             !.invoicesData = SortDescBy(SnapshotDocs(invoices, AnyDoc), dateOf),
             !.pc = "getDocs.clients"]
     \/ managerInvoices' =
          [managerInvoices EXCEPT !.isLoading = FALSE, !.pc = "idle",
                                  !.outcome = "failed"]
  /\ UNCHANGED batch

\* fetchInvoicesData: await getDocs(clients ordered by name), the return when
\* there is no invoice, the call of getDocumentsInBatches otherwise
fetchInvoicesData_clients ==
  /\ managerInvoices.pc = "getDocs.clients"
  /\ \/ /\ Len(managerInvoices.invoicesData) = 0
        /\ managerInvoices' =
             [managerInvoices EXCEPT
                !.allClientsData = SnapshotDocs(clients, AnyDoc),
                !.clients = SnapshotDocs(clients, AnyDoc),
                !.allInvoices = <<>>,
                !.isLoading = FALSE,
                !.pc = "idle",
                !.outcome = "loaded"]
        /\ UNCHANGED batch
     \/ /\ Len(managerInvoices.invoicesData) # 0
        /\ managerInvoices' =
             [managerInvoices EXCEPT
                !.allClientsData = SnapshotDocs(clients, AnyDoc),
                !.clients = SnapshotDocs(clients, AnyDoc),
                !.pc = "getDocumentsInBatches"]
        /\ batch' = getDocumentsInBatches(
                      "vehicles", uniqueVehicleIds(managerInvoices.invoicesData))
     \/ /\ managerInvoices' =
             [managerInvoices EXCEPT !.isLoading = FALSE, !.pc = "idle",
                                  !.outcome = "failed"]
        /\ UNCHANGED batch

\* fetchInvoicesData after getDocumentsInBatches returned: the enrichment
fetchInvoicesData_enrich ==
  /\ managerInvoices.pc = "getDocumentsInBatches"
  /\ batch.pc = "returned"
  /\ managerInvoices' =
       [managerInvoices EXCEPT
          !.allInvoices =
             enrichedInvoicesData(managerInvoices.invoicesData,
                                  managerInvoices.allClientsData,
                                  batch.resultsMap),
          !.isLoading = FALSE,
          !.pc = "idle",
          !.outcome = "loaded"]
  /\ UNCHANGED batch

\* fetchInvoicesData when getDocumentsInBatches threw: catch and finally
fetchInvoicesData_catch ==
  /\ managerInvoices.pc = "getDocumentsInBatches"
  /\ batch.pc = "failed"
  /\ managerInvoices' =
       [managerInvoices EXCEPT !.isLoading = FALSE, !.pc = "idle",
                                  !.outcome = "failed"]
  /\ UNCHANGED batch

(***************************************************************************)
(* ClientVehicleDetailPage.  Each call of the onAuthStateChanged callback  *)
(* is a routine of its own, with its user; a page takes MaxCallbacks calls.*)
(***************************************************************************)
MaxCallbacks == 2
RoutineIds == 1..MaxCallbacks

NoRoutine ==
  [pc |-> "unused", user |-> Null, ownerId |-> Null, stored |-> FALSE,
   reads |-> {}, outcome |-> "none"]

ClientVehicleUnmounted ==
  [pc |-> "unmounted", vehicleId |-> Null, currentUser |-> Null,
   vehicleData |-> NoDoc, maintenanceItems |-> <<>>, invoices |-> <<>>,
   authLoading |-> TRUE, dataLoading |-> TRUE, fetchError |-> Null,
   isAuthorized |-> Null,
   authEvent |-> FALSE, callbacks |-> 0,
   routines |-> [r \in RoutineIds |-> NoRoutine]]

\* no comparison of the owner
OwnerMatches_always(rawData, user) == TRUE

\* rawData.ownerId !== user.uid, negated
OwnerMatches(rawData, user) == rawData.ownerId = user

\* the branch of a mismatch without the not-found message
OnOwnerMismatch_unauthorized(page) ==
  [page EXCEPT !.isAuthorized = "false",
               !.vehicleData = NoDoc,
               !.dataLoading = FALSE]

\* the branch of rawData.ownerId !== user.uid
OnOwnerMismatch(page) ==
  [page EXCEPT !.fetchError = "vehicleNotFoundDescription",
               !.isAuthorized = "false",
               !.vehicleData = NoDoc,
               !.dataLoading = FALSE]

\* the else branch of vehicleSnap.exists(), and finally
OnVehicleMissing(page) ==
  [[page EXCEPT !.fetchError = "vehicleNotFoundDescription",
                !.vehicleData = NoDoc,
                !.isAuthorized = "false"]
     EXCEPT !.dataLoading = FALSE]

\* catch (error) and finally
OnReadError(page, code) ==
  [(IF code = "permission-denied"
    THEN [page EXCEPT !.fetchError = "vehicleNotFoundDescription",
                      !.isAuthorized = "false"]
    ELSE [page EXCEPT !.fetchError = "errorFetching"])
     EXCEPT !.vehicleData = NoDoc, !.dataLoading = FALSE]

ErrorCodes == {"permission-denied", "unavailable"}

\* What the page renders.
Render(page) ==
  IF page.authLoading THEN [screen |-> "loadingAuth"]
  ELSE IF page.currentUser = Null THEN [screen |-> "notLoggedIn"]
  ELSE IF page.dataLoading THEN [screen |-> "loadingVehicle"]
  ELSE IF page.isAuthorized = "false"
          \/ (page.fetchError # Null /\ page.vehicleData = NoDoc)
  THEN [screen |-> "error",
        title |-> IF page.isAuthorized = "false" /\ page.fetchError = Null
                  THEN "unauthorizedAccessTitle" ELSE "vehicleNotFoundTitle",
        description |-> IF page.fetchError # Null THEN page.fetchError
                        ELSE "unauthorizedAccessMessage",
        icon |-> IF page.isAuthorized = "false" THEN "ShieldAlert"
                 ELSE "AlertTriangleIcon"]
  ELSE IF page.vehicleData = NoDoc
  THEN [screen |-> "error", title |-> "vehicleNotFoundTitle",
        description |-> "vehicleNotFoundDescription",
        icon |-> "AlertTriangleIcon"]
  ELSE [screen |-> "vehicle", vehicle |-> page.vehicleData,
        maintenanceItems |-> page.maintenanceItems, invoices |-> page.invoices]

\* The callback of onAuthStateChanged, called with the session's user, up to
\* its first await.
ClientVehicleDetailPage_onAuthStateChanged ==
  /\ clientVehicle.pc = "mounted"
  /\ clientVehicle.authEvent
  /\ clientVehicle.callbacks < MaxCallbacks
  /\ LET r == clientVehicle.callbacks + 1
     IN clientVehicle' =
          IF currentUser # Null
          THEN [clientVehicle EXCEPT
                  !.authEvent = FALSE,
                  !.callbacks = r,
                  !.currentUser = currentUser,
                  !.authLoading = FALSE,
                  !.dataLoading = TRUE,
                  !.fetchError = Null,
                  !.isAuthorized = Null,
                  !.routines[r] = [NoRoutine EXCEPT !.pc = "getDoc.vehicle",
                                                    !.user = currentUser]]
          ELSE [clientVehicle EXCEPT
                  !.authEvent = FALSE,
                  !.callbacks = r,
                  !.currentUser = Null,
                  !.authLoading = FALSE,
                  !.dataLoading = FALSE,
                  !.vehicleData = NoDoc,
                  !.maintenanceItems = <<>>,
                  !.invoices = <<>>,
                  !.isAuthorized = Null,
                  !.routines[r] = [NoRoutine EXCEPT !.pc = "done"]]

\* await getDoc(vehicleDocRef) of routine r, and what follows up to the next
\* await or the return
ClientVehicleDetailPage_getVehicle(r) ==
  /\ clientVehicle.pc = "mounted"
  /\ clientVehicle.routines[r].pc = "getDoc.vehicle"
  /\ LET rawData == vehicles[clientVehicle.vehicleId]
         user == clientVehicle.routines[r].user
     IN \/ /\ rawData # NoDoc
           /\ ~OwnerMatches(rawData, user)
           /\ clientVehicle' =
                [OnOwnerMismatch(clientVehicle) EXCEPT
                   !.routines[r].pc = "done",
                   !.routines[r].ownerId = rawData.ownerId,
                   !.routines[r].outcome = "mismatch"]
        \/ /\ rawData # NoDoc
           /\ OwnerMatches(rawData, user)
           /\ clientVehicle' =
                [clientVehicle EXCEPT
                   !.isAuthorized = "true",
                   !.vehicleData = WithId(clientVehicle.vehicleId, rawData),
                   !.routines[r].pc = "getDocs.maintenanceItems",
                   !.routines[r].ownerId = rawData.ownerId,
                   !.routines[r].stored = TRUE,
                   !.routines[r].reads = {"maintenanceItems"}]
        \/ /\ rawData = NoDoc
           /\ clientVehicle' =
                [OnVehicleMissing(clientVehicle) EXCEPT
                   !.routines[r].pc = "done",
                   !.routines[r].outcome = "notFound"]
        \/ \E code \in ErrorCodes :
             clientVehicle' =
               [OnReadError(clientVehicle, code) EXCEPT
                  !.routines[r].pc = "done",
                  !.routines[r].outcome = code]

\* await getDocs(maintenanceQuery) of routine r, the sort, and the issue of
\* the invoices query
ClientVehicleDetailPage_getMaintenance(r) ==
  /\ clientVehicle.pc = "mounted"
  /\ clientVehicle.routines[r].pc = "getDocs.maintenanceItems"
  /\ LET user == clientVehicle.routines[r].user
         Mine(d) == d.vehicleId = clientVehicle.vehicleId /\ d.clientId = user
     IN \/ clientVehicle' =
             [clientVehicle EXCEPT
                !.maintenanceItems =
                   SortDescBy(SnapshotDocs(maintenanceItems, Mine), createdAtOf),
                !.routines[r].pc = "getDocs.invoices",
                !.routines[r].reads = @ \cup {"invoices"}]
        \/ \E code \in ErrorCodes :
             clientVehicle' =
               [OnReadError(clientVehicle, code) EXCEPT
                  !.routines[r].pc = "done",
                  !.routines[r].outcome = code]

\* await getDocs(invoicesQuery) of routine r, the sort, and finally
ClientVehicleDetailPage_getInvoices(r) ==
  /\ clientVehicle.pc = "mounted"
  /\ clientVehicle.routines[r].pc = "getDocs.invoices"
  /\ LET user == clientVehicle.routines[r].user
         Mine(d) == d.vehicleId = clientVehicle.vehicleId /\ d.clientId = user
     IN \/ clientVehicle' =
             [clientVehicle EXCEPT
                !.invoices = SortDescBy(SnapshotDocs(invoices, Mine), dateOf),
                !.dataLoading = FALSE,
                !.routines[r].pc = "done",
                !.routines[r].outcome = "loaded"]
        \/ \E code \in ErrorCodes :
             clientVehicle' =
               [OnReadError(clientVehicle, code) EXCEPT
                  !.routines[r].pc = "done",
                  !.routines[r].outcome = code]

(***************************************************************************)
(* Navigation and the session seen from the pages.  Opening a page mounts  *)
(* it and unmounts the others; no layout and no middleware stands between  *)
(* a URL and its page.                                                     *)
(***************************************************************************)
loginVars ==
  <<accounts, clients, loginFlow, loginPc, loginUser, loginSnap, clientSnap>>

ManagerDashboardPage_mount ==
  /\ route' = ManagerDashboard
  /\ managerDashboard' =
       [ManagerDashboardUnmounted EXCEPT !.pc = "onAuthStateChanged"]
  /\ managerVehicle' = ManagerVehicleUnmounted
  /\ managerInvoices' = ManagerInvoicesUnmounted
  /\ batch' = BatchIdle
  /\ managerClients' = ManagerClientsUnmounted
  /\ clientVehicle' = ClientVehicleUnmounted
  /\ UNCHANGED <<currentUser, loginVars>>

ManagerVehicleDetailPage_mount(vehicleId) ==
  /\ route' = ManagerVehiclePage
  /\ managerVehicle' =
       [ManagerVehicleUnmounted EXCEPT !.pc = "onAuthStateChanged",
                                       !.vehicleId = vehicleId]
  /\ managerDashboard' = ManagerDashboardUnmounted
  /\ managerInvoices' = ManagerInvoicesUnmounted
  /\ batch' = BatchIdle
  /\ managerClients' = ManagerClientsUnmounted
  /\ clientVehicle' = ClientVehicleUnmounted
  /\ UNCHANGED <<currentUser, loginVars>>

\* the page's effect calls fetchInvoicesData, which runs up to its first await
ManagerInvoicesPage_mount ==
  /\ route' = ManagerInvoicesPage
  /\ managerInvoices' =
       [ManagerInvoicesUnmounted EXCEPT !.pc = "getDocs.invoices"]
  /\ managerDashboard' = ManagerDashboardUnmounted
  /\ managerVehicle' = ManagerVehicleUnmounted
  /\ batch' = BatchIdle
  /\ managerClients' = ManagerClientsUnmounted
  /\ clientVehicle' = ClientVehicleUnmounted
  /\ UNCHANGED <<currentUser, loginVars>>

ClientVehicleDetailPage_mount(vehicleId) ==
  /\ route' = ClientVehiclePage
  /\ clientVehicle' =
       [ClientVehicleUnmounted EXCEPT !.pc = "mounted",
                                      !.vehicleId = vehicleId,
                                      !.authEvent = TRUE]
  /\ managerDashboard' = ManagerDashboardUnmounted
  /\ managerVehicle' = ManagerVehicleUnmounted
  /\ managerInvoices' = ManagerInvoicesUnmounted
  /\ batch' = BatchIdle
  /\ managerClients' = ManagerClientsUnmounted
  /\ UNCHANGED <<currentUser, loginVars>>

\* The session changes under a mounted page (a sign-in or sign-out in
\* another tab): the page's onAuthStateChanged listener is to be called.
authStateChanged(u) ==
  /\ u # currentUser
  /\ u = Null \/ u \in accounts
  /\ \/ managerDashboard.pc = "idle"
     \/ managerVehicle.pc = "idle"
     \/ /\ clientVehicle.pc = "mounted"
        /\ ~clientVehicle.authEvent
        /\ clientVehicle.callbacks < MaxCallbacks
  /\ currentUser' = u
  /\ managerDashboard' =
       IF managerDashboard.pc = "idle"
       THEN [managerDashboard EXCEPT !.pc = "onAuthStateChanged"]
       ELSE managerDashboard
  /\ managerVehicle' =
       IF managerVehicle.pc = "idle"
       THEN [managerVehicle EXCEPT !.pc = "onAuthStateChanged"]
       ELSE managerVehicle
  /\ clientVehicle' =
       IF clientVehicle.pc = "mounted"
       THEN [clientVehicle EXCEPT !.authEvent = TRUE]
       ELSE clientVehicle
  /\ UNCHANGED <<route, loginVars, managerInvoices, batch, managerClients>>

\* handleLogout leaves the portal: its page unmounts.
handleLogout_unmount ==
  /\ handleLogout
  /\ managerDashboard' = ManagerDashboardUnmounted
  /\ managerVehicle' = ManagerVehicleUnmounted
  /\ managerInvoices' = ManagerInvoicesUnmounted
  /\ batch' = BatchIdle
  /\ managerClients' = ManagerClientsUnmounted
  /\ clientVehicle' = ClientVehicleUnmounted

(***************************************************************************)
(* The forms of the vehicle page and of the profile pages, and the         *)
(* manager's client page: one record each, its fields the component's      *)
(* useState variables, the await its handler is suspended at (pc) and the  *)
(* handler's locals.                                                       *)
(***************************************************************************)
VARIABLES
  vehicleDetail,   \* ManagerVehicleDetailPage: vehicleData and handleDeleteVehicle
  editVehicle,     \* EditVehicleForm
  invoiceSection,  \* InvoiceManagementSection: the delete dialog, onSubmit's clientIdForInvoice
  editProfile,     \* EditProfileForm
  clientDetail     \* ManagerClientDetailPage

formVars ==
  <<vehicleDetail, editVehicle, invoiceSection, editProfile, clientDetail>>

\* ManagerVehicleDetailPage before it has a vehicle
VehicleDetailIdle ==
  [vehicleData |-> NoDoc, isDeletingVehicle |-> FALSE,
   isConfirmDeleteOpen |-> FALSE, pc |-> "idle", deleting |-> NoDoc]

\* useState of EditVehicleForm; submitted holds what the running onSubmit
\* closed over, updateData its local of that name
NoSubmission ==
  [selectedImageFile |-> Null, intentToDeleteImage |-> FALSE, ownerId |-> Null,
   imagePath |-> NullPath, id |-> Null]
Undefined == <<"undefined">>
EditVehicleIdle ==
  [selectedImageFile |-> Null, intentToDeleteImage |-> FALSE,
   isSubmitting |-> FALSE, pc |-> "idle", submitted |-> NoSubmission, toast |-> "none",
   updateData |-> [imagePath |-> Undefined]]

\* useState of InvoiceManagementSection
InvoiceSectionIdle ==
  [isConfirmDeleteDialogOpen |-> FALSE, invoiceToDeleteId |-> Null,
   invoiceToDeletePdfPath |-> NullPath, pc |-> "idle",
   clientIdForInvoice |-> Null]

\* useState of EditProfileForm, no client given to it yet; values, newImagePath
\* and imageStoragePath are locals of onSubmit, now is the clock Date.now()
\* reads
NoValues == [identityDocument |-> Null]
EditProfileIdle ==
  [client |-> NoDoc, selectedImageFile |-> Null, intentToDeleteImage |-> FALSE,
   isSubmittingForm |-> FALSE, isProcessingImage |-> FALSE, pc |-> "idle",
   values |-> NoValues, toast |-> "none", newImagePath |-> NullPath,
   imageStoragePath |-> NullPath, now |-> 1]

\* useState of ManagerClientDetailPage
ClientDetailUnmounted ==
  [clientId |-> Null, client |-> NoDoc, isLoadingClient |-> TRUE,
   clientError |-> Null, clientVehicles |-> <<>>, isLoadingVehicles |-> FALSE,
   vehiclesError |-> Null, runs |-> <<>>]

FormsIdle ==
  /\ vehicleDetail = VehicleDetailIdle
  /\ editVehicle = EditVehicleIdle
  /\ invoiceSection = InvoiceSectionIdle
  /\ editProfile = EditProfileIdle
  /\ clientDetail = ClientDetailUnmounted

PagesUnmounted ==
  /\ managerDashboard = ManagerDashboardUnmounted
  /\ managerVehicle = ManagerVehicleUnmounted
  /\ managerInvoices = ManagerInvoicesUnmounted
  /\ batch = BatchIdle
  /\ clientVehicle = ClientVehicleUnmounted
  /\ managerClients = ManagerClientsUnmounted
  /\ FormsIdle

NoLoginRunning ==
  /\ loginFlow = "none"
  /\ loginPc = "idle"
  /\ loginUser = Null
  /\ loginSnap = NoDoc
  /\ clientSnap = NoDoc

ClientRecord(role, identityDocument) ==
  [exists |-> TRUE, role |-> role, isActive |-> TRUE, updatedAt |-> "earlier",
   identityDocument |-> identityDocument]

(***************************************************************************)
(* The specifications: one per part of the application, the state of the   *)
(* other parts held as it is.                                              *)
(***************************************************************************)
vars == <<invoiceVars, authVars, dataVars, pageVars, formVars>>

\* The invoice form, opened by a manager on the page of vehicle veh1.
InitInvoiceForm ==
  /\ InvoiceInit
  /\ accounts = Uids
  /\ clients = [u \in Uids |->
                  IF u = "u1" THEN ClientRecord("manager", Null)
                  ELSE ClientRecord("client", Null)]
  /\ currentUser = "u1"
  /\ route = ManagerVehiclePage
  /\ NoLoginRunning
  /\ vehicles = [v \in VehicleIds |->
                   IF v = VehicleId
                   THEN [exists |-> TRUE, ownerId |-> VehicleOwnerClientId,
                         createdAt |-> 1]
                   ELSE NoDoc]
  /\ maintenanceItems = [m \in MaintenanceIds |-> NoDoc]
  /\ PagesUnmounted

NextInvoiceForm ==
  \/ handleOpenAddDialog /\ UNCHANGED <<formVars, authVars, dataVars, pageVars>>
  \/ \E id \in InvoiceIds :
       handleOpenEditDialog(id) /\ UNCHANGED <<formVars, authVars, dataVars, pageVars>>
  \/ closeInvoiceDialog /\ UNCHANGED <<formVars, authVars, dataVars, pageVars>>
  \/ \E values \in FormValueChoices :
       handleSubmit(values) /\ UNCHANGED <<formVars, authVars, dataVars, pageVars>>
  \/ deleteOldPdf /\ UNCHANGED <<formVars, authVars, dataVars, pageVars>>
  \/ uploadPdf /\ UNCHANGED <<formVars, authVars, dataVars, pageVars>>
  \/ getDownloadURL /\ UNCHANGED <<formVars, authVars, dataVars, pageVars>>
  \/ writeInvoice /\ UNCHANGED <<formVars, authVars, dataVars, pageVars>>

SpecInvoiceForm == InitInvoiceForm /\ [][NextInvoiceForm]_vars

\* Sign-in and registration, from any accounts and records.
InitAuth ==
  /\ AuthInit
  /\ InvoiceInit
  /\ vehicles = [v \in VehicleIds |-> NoDoc]
  /\ maintenanceItems = [m \in MaintenanceIds |-> NoDoc]
  /\ PagesUnmounted

NextAuth ==
  \/ \E u \in Uids, namesGiven \in BOOLEAN :
       LoginForm_onSubmit_register(u, namesGiven)
         /\ UNCHANGED <<formVars, invoiceVars, dataVars, pageVars>>
  \/ \E u \in Uids :
       LoginForm_onSubmit_login(u) /\ UNCHANGED <<formVars, invoiceVars, dataVars, pageVars>>
  \/ LoginForm_onSubmit_getDoc /\ UNCHANGED <<formVars, invoiceVars, dataVars, pageVars>>
  \/ \E u \in Uids :
       handleGoogleSignIn(u) /\ UNCHANGED <<formVars, invoiceVars, dataVars, pageVars>>
  \/ handleGoogleSignIn_getDoc /\ UNCHANGED <<formVars, invoiceVars, dataVars, pageVars>>
  \/ createOrUpdateClientDocument_getDoc
       /\ UNCHANGED <<formVars, invoiceVars, dataVars, pageVars>>
  \/ createOrUpdateClientDocument_setDoc
       /\ UNCHANGED <<formVars, invoiceVars, dataVars, pageVars>>
  \/ LoginForm_signOut /\ UNCHANGED <<formVars, invoiceVars, dataVars, pageVars>>
  \/ \E u \in Uids :
       ManagerLoginForm_onSubmit(u) /\ UNCHANGED <<formVars, invoiceVars, dataVars, pageVars>>
  \/ ManagerLoginForm_onSubmit_getDoc
       /\ UNCHANGED <<formVars, invoiceVars, dataVars, pageVars>>
  \/ handleLogout /\ UNCHANGED <<formVars, invoiceVars, dataVars, pageVars>>

SpecAuth == InitAuth /\ [][NextAuth]_vars

\* The manager portal's pages, opened by whoever holds the session, over any
\* small datastore: u1 a manager, a client or without record, u2 a client
\* with or without identity document or without record.
ViewClientStores ==
  { [u \in Uids |-> IF u = "u1" THEN a ELSE b] :
      a \in {ClientRecord("manager", "12345678Z"), ClientRecord("client", Null), NoDoc},
      b \in {ClientRecord("client", "87654321X"), ClientRecord("client", Null), NoDoc} }

\* a vehicle record without ownerId
OwnerlessVehicle == [exists |-> TRUE, ownerId |-> Null, createdAt |-> 1]

ViewVehicleStores ==
  { s \in [VehicleIds -> {NoDoc, OwnerlessVehicle}
                           \cup { d \in VehicleDocs : d.ownerId = "u2" }] :
      s["veh2"] # OwnerlessVehicle }

ViewInvoiceStores ==
  { [i \in ListedInvoiceIds |-> IF i = "inv1" THEN a ELSE b] :
      a \in {NoDoc, SavedInvoice("veh1", "u2", 1)},
      b \in {NoDoc, SavedInvoice("veh1", "u2", 1), SavedInvoice("veh2", "u2", 2)} }

ViewMaintenanceStores ==
  [MaintenanceIds -> {NoDoc, [exists |-> TRUE, vehicleId |-> "veh1",
                              clientId |-> "u2", createdAt |-> 1]}]

InitManagerViews ==
  /\ invoices \in ViewInvoiceStores
  /\ blobs = {}
  /\ InvoiceFormIdle
  /\ accounts = Uids
  /\ clients \in ViewClientStores
  /\ currentUser \in {"u1", Null}
  /\ route = HomePage
  /\ NoLoginRunning
  /\ vehicles \in ViewVehicleStores
  /\ maintenanceItems \in ViewMaintenanceStores
  /\ PagesUnmounted

NextManagerViews ==
  \/ ManagerDashboardPage_mount /\ UNCHANGED <<formVars, invoiceVars, dataVars>>
  \/ ManagerDashboardPage_onAuthStateChanged
       /\ UNCHANGED <<formVars, invoiceVars, dataVars, authVars, managerVehicle,
                      managerInvoices, batch, clientVehicle, managerClients>>
  \/ fetchData_clients
       /\ UNCHANGED <<formVars, invoiceVars, dataVars, authVars, managerVehicle,
                      managerInvoices, batch, clientVehicle, managerClients>>
  \/ fetchData_vehicles
       /\ UNCHANGED <<formVars, invoiceVars, dataVars, authVars, managerVehicle,
                      managerInvoices, batch, clientVehicle, managerClients>>
  \/ \E id \in VehicleIds :
       ManagerVehicleDetailPage_mount(id) /\ UNCHANGED <<formVars, invoiceVars, dataVars>>
  \/ ManagerVehicleDetailPage_onAuthStateChanged
       /\ UNCHANGED <<formVars, invoiceVars, dataVars, authVars, managerDashboard,
                      managerInvoices, batch, clientVehicle, managerClients>>
  \/ ManagerVehicleDetailPage_getVehicle
       /\ UNCHANGED <<formVars, invoiceVars, dataVars, authVars, managerDashboard,
                      managerInvoices, batch, clientVehicle, managerClients>>
  \/ ManagerVehicleDetailPage_getOwner
       /\ UNCHANGED <<formVars, invoiceVars, dataVars, authVars, managerDashboard,
                      managerInvoices, batch, clientVehicle, managerClients>>
  \/ ManagerVehicleDetailPage_getInvoices
       /\ UNCHANGED <<formVars, invoiceVars, dataVars, authVars, managerDashboard,
                      managerInvoices, batch, clientVehicle, managerClients>>
  \/ ManagerVehicleDetailPage_getMaintenance
       /\ UNCHANGED <<formVars, invoiceVars, dataVars, authVars, managerDashboard,
                      managerInvoices, batch, clientVehicle, managerClients>>
  \/ ManagerInvoicesPage_mount /\ UNCHANGED <<formVars, invoiceVars, dataVars>>
  \/ fetchInvoicesData_invoices
       /\ UNCHANGED <<formVars, invoiceVars, dataVars, authVars, managerDashboard,
                      managerVehicle, clientVehicle, managerClients>>
  \/ fetchInvoicesData_clients
       /\ UNCHANGED <<formVars, invoiceVars, dataVars, authVars, managerDashboard,
                      managerVehicle, clientVehicle, managerClients>>
  \/ getDocumentsInBatches_query
       /\ UNCHANGED <<formVars, invoiceVars, dataVars, authVars, managerDashboard,
                      managerVehicle, managerInvoices, clientVehicle, managerClients>>
  \/ fetchInvoicesData_enrich
       /\ UNCHANGED <<formVars, invoiceVars, dataVars, authVars, managerDashboard,
                      managerVehicle, clientVehicle, managerClients>>
  \/ fetchInvoicesData_catch
       /\ UNCHANGED <<formVars, invoiceVars, dataVars, authVars, managerDashboard,
                      managerVehicle, clientVehicle, managerClients>>
  \/ \E u \in Uids \cup {Null} :
       authStateChanged(u) /\ UNCHANGED <<formVars, invoiceVars, dataVars>>
  \/ handleLogout_unmount /\ UNCHANGED <<formVars, invoiceVars, dataVars>>

SpecManagerViews == InitManagerViews /\ [][NextManagerViews]_vars

\* The client's vehicle page: veh1 belongs to u1, there is no veh2.
InitClientVehicle ==
  /\ invoices \in
       { [i \in ListedInvoiceIds |-> IF i = "inv1" THEN a ELSE b] :
           a \in {NoDoc, SavedInvoice("veh1", "u1", 1)},
           b \in {NoDoc, SavedInvoice("veh1", "u1", 2)} }
  /\ blobs = {}
  /\ InvoiceFormIdle
  /\ accounts = Uids
  /\ clients = [u \in Uids |-> ClientRecord("client", Null)]
  /\ currentUser \in Uids \cup {Null}
  /\ route = HomePage
  /\ NoLoginRunning
  /\ vehicles = [v \in VehicleIds |->
                   IF v = "veh1"
                   THEN [exists |-> TRUE, ownerId |-> "u1", createdAt |-> 1]
                   ELSE NoDoc]
  /\ maintenanceItems \in
       [MaintenanceIds -> {NoDoc, [exists |-> TRUE, vehicleId |-> "veh1",
                                   clientId |-> "u1", createdAt |-> 1]}]
  /\ PagesUnmounted

NextClientVehicle ==
  \/ \E id \in VehicleIds :
       ClientVehicleDetailPage_mount(id) /\ UNCHANGED <<formVars, invoiceVars, dataVars>>
  \/ ClientVehicleDetailPage_onAuthStateChanged
       /\ UNCHANGED <<formVars, invoiceVars, dataVars, authVars, managerDashboard,
                      managerVehicle, managerInvoices, batch, managerClients>>
  \/ \E r \in RoutineIds :
       ClientVehicleDetailPage_getVehicle(r)
         /\ UNCHANGED <<formVars, invoiceVars, dataVars, authVars, managerDashboard,
                        managerVehicle, managerInvoices, batch, managerClients>>
  \/ \E r \in RoutineIds :
       ClientVehicleDetailPage_getMaintenance(r)
         /\ UNCHANGED <<formVars, invoiceVars, dataVars, authVars, managerDashboard,
                        managerVehicle, managerInvoices, batch, managerClients>>
  \/ \E r \in RoutineIds :
       ClientVehicleDetailPage_getInvoices(r)
         /\ UNCHANGED <<formVars, invoiceVars, dataVars, authVars, managerDashboard,
                        managerVehicle, managerInvoices, batch, managerClients>>
  \/ \E u \in Uids \cup {Null} :
       authStateChanged(u) /\ UNCHANGED <<formVars, invoiceVars, dataVars>>
  \/ handleLogout_unmount /\ UNCHANGED <<formVars, invoiceVars, dataVars>>

SpecClientVehicle == InitClientVehicle /\ [][NextClientVehicle]_vars

\* getDocumentsInBatches on its own: lists of up to MaxIds distinct ids,
\* ascending or descending, looked up in a collection that misses none,
\* every second, every seventh or all of them.
MaxIds == 65

MissingEvery == {0, 1, 2, 7}

BatchStores ==
  { [id \in 1..MaxIds |->
       IF k > 0 /\ id % k = 0 THEN NoDoc
       ELSE [exists |-> TRUE, ownerId |-> "u2", createdAt |-> 1]] :
      k \in MissingEvery }

BatchIdLists ==
  UNION { { [i \in 1..n |-> i], [i \in 1..n |-> n + 1 - i] } : n \in 0..MaxIds }

InitBatch ==
  /\ InvoiceInit
  /\ accounts = Uids
  /\ clients = [u \in Uids |->
                  IF u = "u1" THEN ClientRecord("manager", Null)
                  ELSE ClientRecord("client", Null)]
  /\ currentUser = "u1"
  /\ route = ManagerInvoicesPage
  /\ NoLoginRunning
  /\ vehicles \in BatchStores
  /\ maintenanceItems = [m \in MaintenanceIds |-> NoDoc]
  /\ PagesUnmounted

\* a call getDocumentsInBatches("vehicles", ids)
getDocumentsInBatches_call(ids) ==
  /\ batch.pc \in {"idle", "returned", "failed"}
  /\ batch' = getDocumentsInBatches("vehicles", ids)

NextBatch ==
  \/ \E ids \in BatchIdLists :
       getDocumentsInBatches_call(ids)
         /\ UNCHANGED <<formVars, invoiceVars, dataVars, authVars, managerDashboard,
                        managerVehicle, managerInvoices, clientVehicle, managerClients>>
  \/ getDocumentsInBatches_query
       /\ UNCHANGED <<formVars, invoiceVars, dataVars, authVars, managerDashboard,
                      managerVehicle, managerInvoices, clientVehicle, managerClients>>

SpecBatch == InitBatch /\ [][NextBatch]_vars

(***************************************************************************)
(* Decimal rounding to two places (round2), half up, on exact decimals:    *)
(* the result in hundredths.                                               *)
(***************************************************************************)
\* round2(x / 10^6), x a product of two numbers of thousandths
Round2OfMillionths(x) == (x + 5000) \div 10000

\* round2(x / 10^4), x a number of hundredths times a number of hundredths
Round2OfTenThousandths(x) == (x + 50) \div 100

RECURSIVE SumOfTotals(_, _)
SumOfTotals(services, n) ==
  IF n = 0 THEN 0 ELSE SumOfTotals(services, n - 1) + services[n].total

\* C1: every invoice saved through the form has each line total equal to
\* round2(quantity * unitPrice), subtotalAmount equal to round2 of the sum of
\* the stored line totals, vatAmount equal to round2(subtotalAmount * 0.21)
\* and totalAmount equal to round2(subtotalAmount + vatAmount).
C1_AmountChain ==
  \A id \in InvoiceIds :
    invoices[id] # NoDoc =>
      LET d == invoices[id]
      IN /\ \A i \in 1..Len(d.services) :
              d.services[i].total =
                Round2OfMillionths(d.services[i].quantity * d.services[i].unitPrice)
         /\ d.subtotalAmount = SumOfTotals(d.services, Len(d.services))
         /\ d.vatAmount =
              Round2OfTenThousandths(d.subtotalAmount * VAT_RATE_Hundredths)
         /\ d.totalAmount = d.subtotalAmount + d.vatAmount

\* C2: a line item is accepted exactly when its quantity is > 0 and its unit
\* price is >= 0; a submission with an item of quantity <= 0 or unit price < 0
\* is rejected; a rejected submission performs no blob operation and no write.
C2_ItemRule ==
  submitOutcome # "none" =>
    LET items == formValues.invoiceServices
    IN /\ \A i \in 1..Len(items) :
            (i \notin formErrors) <=> (items[i].quantity > 0 /\ items[i].unitPrice >= 0)
       /\ (\E i \in 1..Len(items) : items[i].quantity <= 0 \/ items[i].unitPrice < 0)
            => submitOutcome = "rejected"
       /\ submitOutcome = "rejected" => submitOps = 0 /\ submitPc = "idle"

\* C3: after any sign-in or registration flow has finished for a user whose
\* Client record is missing or has isActive false, that user is signed out
\* and the browser is on no portal page.
C3_PendingSignedOut ==
  (loginFlow # "none" /\ loginPc = "idle" /\ loginUser # Null) =>
    ((clients[loginUser] = NoDoc \/ ~clients[loginUser].isActive) =>
       (currentUser # loginUser /\ route \notin Portals))

\* C4: after a sign-in, the portal the user is routed to is determined by the
\* role of the Client record fetched after sign-in: the manager dashboard
\* only when the role is 'manager', the client dashboard only when it is
\* 'client'.
C4_RoutedByRole ==
  (loginFlow # "none" /\ loginPc = "idle" /\ loginUser # Null
     /\ currentUser = loginUser) =>
    /\ route = ManagerDashboard =>
         (clients[loginUser] # NoDoc /\ clients[loginUser].role = "manager")
    /\ route = ClientDashboard =>
         (clients[loginUser] # NoDoc /\ clients[loginUser].role = "client")

\* C5: the manager dashboard and the manager vehicle-detail view load and
\* show data only for a signed-in user whose Client record exists with role
\* 'manager'.
IsManager(u) ==
  u # Null /\ clients[u] # NoDoc /\ clients[u].role = "manager"

C5_ManagerViewsForManagersOnly ==
  /\ (\/ managerDashboard.pc \in {"getDocs.clients", "getDocs.vehicles"}
      \/ managerDashboard.clients # <<>>
      \/ managerDashboard.allVehicles # <<>>)
       => IsManager(managerDashboard.currentUser)
  /\ (\/ managerVehicle.pc \in {"getDoc.vehicle", "getDoc.owner",
                                 "getDocs.invoices", "getDocs.maintenance"}
      \/ managerVehicle.vehicleData # NoDoc
      \/ managerVehicle.ownerData # NoDoc
      \/ managerVehicle.invoices # <<>>
      \/ managerVehicle.maintenanceItems # <<>>)
       => IsManager(managerVehicle.currentUser)

\* C6: a routine of the client vehicle page stores vehicle data and issues
\* the maintenance-item and invoice reads only when the ownerId it read equals
\* the id of the user it was started for; when they differ it stores nothing
\* and issues neither read.
C6_OwnerCheckedFirst ==
  /\ \A r \in RoutineIds :
       LET x == clientVehicle.routines[r]
       IN /\ (x.stored \/ x.reads # {}) => x.ownerId = x.user
          /\ (x.ownerId # Null /\ x.ownerId # x.user) =>
               (~x.stored /\ x.reads = {})
  /\ clientVehicle.vehicleData # NoDoc =>
       \E r \in RoutineIds :
         /\ clientVehicle.routines[r].stored
         /\ clientVehicle.routines[r].user = clientVehicle.vehicleData.ownerId

C6_Witness ==
  \E r1, r2 \in RoutineIds :
    /\ clientVehicle.routines[r1].stored
    /\ clientVehicle.routines[r1].reads = {"maintenanceItems", "invoices"}
    /\ clientVehicle.routines[r2].outcome = "mismatch"

\* What the client vehicle page shows and holds.
ClientVehicleView(page) ==
  [currentUser |-> page.currentUser, vehicleData |-> page.vehicleData,
   maintenanceItems |-> page.maintenanceItems, invoices |-> page.invoices,
   authLoading |-> page.authLoading, dataLoading |-> page.dataLoading,
   fetchError |-> page.fetchError, isAuthorized |-> page.isAuthorized]

NotFoundView(before) ==
  [ClientVehicleView(before) EXCEPT !.fetchError = "vehicleNotFoundDescription",
                                    !.isAuthorized = "false",
                                    !.vehicleData = NoDoc,
                                    !.dataLoading = FALSE]

NotFoundScreen ==
  [screen |-> "error", title |-> "vehicleNotFoundTitle",
   description |-> "vehicleNotFoundDescription", icon |-> "ShieldAlert"]

\* C7: a routine that finds the vehicle owned by another client leaves the
\* client vehicle page exactly as a routine that finds no vehicle does: the
\* same fetchError, isAuthorized and vehicleData (none), the rest of the view
\* as it was and, for a signed-in user, the same title, message and icon.
C7_MismatchSameAsNotFound ==
  [][\A r \in RoutineIds :
       (/\ clientVehicle.pc = "mounted"
        /\ clientVehicle'.pc = "mounted"
        /\ clientVehicle.routines[r].outcome = "none"
        /\ clientVehicle'.routines[r].outcome \in {"mismatch", "notFound"})
       => /\ ClientVehicleView(clientVehicle') = NotFoundView(clientVehicle)
          /\ clientVehicle'.currentUser # Null =>
               Render(clientVehicle') = NotFoundScreen]_vars

C7_Witness ==
  /\ \E r \in RoutineIds : clientVehicle.routines[r].outcome = "mismatch"
  /\ clientVehicle.currentUser # Null
  /\ Render(clientVehicle) = NotFoundScreen

\* C8: for n >= 0 distinct ids the batched lookup, when it returns, has
\* issued exactly ceil(n / 30) queries, each of 1 to 30 ids, and every
\* requested id is in exactly one query.
C8_QueriesPartitionIds ==
  batch.pc = "returned" =>
    LET n == Len(batch.ids)
        q == batch.queries
    IN /\ 30 * Len(q) >= n
       /\ Len(q) > 0 => 30 * (Len(q) - 1) < n
       /\ \A k \in 1..Len(q) : Len(q[k]) >= 1 /\ Len(q[k]) <= 30
       /\ \A i \in 1..n :
            Cardinality({ kj \in UNION { { <<k, j>> : j \in 1..Len(q[k]) } :
                                         k \in 1..Len(q) } :
                            q[kj[1]][kj[2]] = batch.ids[i] }) = 1

C8_Witness ==
  /\ batch.pc = "returned"
  /\ Len(batch.ids) = 65
  /\ Len(batch.queries) = 3

\* One lookup of the whole id list.
UnbatchedLookup(coll, ids) ==
  [id \in { x \in Range(ids) : x \in DOMAIN coll /\ coll[x] # NoDoc } |->
     WithId(id, coll[id])]

\* C9: the merged result of the batched lookup maps exactly the requested
\* ids that resolve to a record to that record: it is the result of one
\* unbatched lookup of the whole list, wherever the chunk boundaries fall.
C9_MergedEqualsUnbatched ==
  batch.pc = "returned" =>
    batch.resultsMap = UnbatchedLookup(Collection(batch.collectionName), batch.ids)

C9_Witness ==
  /\ batch.pc = "returned"
  /\ Len(batch.ids) > 2 * 30
  /\ DOMAIN batch.resultsMap # {}
  /\ DOMAIN batch.resultsMap # Range(batch.ids)

\* C10: enrichment lists every primary record exactly once, and a record
\* whose clientId, vehicleId or ownerId names no reference record shows
\* "N/A" in the fields taken from that record.
OnceEach(primary, enriched) ==
  /\ Len(enriched) = Len(primary)
  /\ \A i \in 1..Len(primary) :
       Cardinality({ j \in 1..Len(enriched) : enriched[j].id = primary[i].id }) = 1

C10_EnrichmentTotal ==
  /\ (managerInvoices.pc = "idle" /\ managerInvoices.outcome = "loaded") =>
       /\ OnceEach(managerInvoices.invoicesData, managerInvoices.allInvoices)
       /\ \A j \in 1..Len(managerInvoices.allInvoices) :
            LET e == managerInvoices.allInvoices[j]
            IN /\ e.clientName =
                    (IF clients[e.clientId] = NoDoc THEN "N/A"
                     ELSE FullName(e.clientId))
               /\ e.vehicleIdentifier =
                    (IF vehicles[e.vehicleId] = NoDoc THEN "N/A"
                     ELSE VehicleIdentifier(e.vehicleId))
  /\ (managerDashboard.pc = "idle" /\ managerDashboard.currentUser # Null) =>
       /\ OnceEach(managerDashboard.vehiclesData, managerDashboard.allVehicles)
       /\ \A j \in 1..Len(managerDashboard.allVehicles) :
            LET e == managerDashboard.allVehicles[j]
                missing ==
                  \A c \in Range(managerDashboard.clientsData) : c.id # e.ownerId
            IN /\ e.ownerName = (IF missing THEN "N/A" ELSE FullName(e.ownerId))
               /\ e.clientEmail = (IF missing THEN "N/A" ELSE Email(e.ownerId))
               /\ missing => e.ownerDni = "N/A"

C10_Witness ==
  /\ managerInvoices.pc = "idle"
  /\ Len(managerInvoices.allInvoices) = 2
  /\ \E j \in 1..2 : managerInvoices.allInvoices[j].vehicleIdentifier = "N/A"
  /\ \E j \in 1..2 : managerInvoices.allInvoices[j].clientName = "N/A"

(***************************************************************************)
(* The list views of the manager portal: filters, search and pagination of *)
(* ManagerInvoicesPage, ManagerDashboardPage and ManagerClientsPage.       *)
(***************************************************************************)
ITEMS_PER_PAGE == 10

\* Math.ceil(length / ITEMS_PER_PAGE)
TotalPages(length) ==
  IF length % ITEMS_PER_PAGE = 0
  THEN length \div ITEMS_PER_PAGE
  ELSE length \div ITEMS_PER_PAGE + 1

\* a page that starts one item early
PageSlice_overlapping(list, currentPage) ==
  Slice(list, (currentPage - 1) * (ITEMS_PER_PAGE - 1), currentPage * ITEMS_PER_PAGE)

\* list.slice((currentPage - 1) * ITEMS_PER_PAGE, currentPage * ITEMS_PER_PAGE)
PageSlice(list, currentPage) ==
  Slice(list, (currentPage - 1) * ITEMS_PER_PAGE, currentPage * ITEMS_PER_PAGE)

InvoiceStatuses == {"pending", "paid", "overdue"}

\* The values a manager picks in the two selects.
StatusChoices == {"all", "paid"}
ClientChoices == {"all", "u2"}

\* filterStatus === 'all' || invoice.status === filterStatus
statusMatch(invoice, filterStatus) ==
  filterStatus = "all" \/ invoice.status = filterStatus

\* filterClient === 'all' || invoice.clientId === filterClient
clientMatch(invoice, filterClient) ==
  filterClient = "all" \/ invoice.clientId = filterClient

\* a filter that keeps what matches either select
filteredInvoices_either(allInvoices, filterStatus, filterClient) ==
  SelectSeq(allInvoices,
            LAMBDA invoice : \/ statusMatch(invoice, filterStatus)
                             \/ clientMatch(invoice, filterClient))

\* allInvoices.filter(invoice => statusMatch && clientMatch)
filteredInvoices(allInvoices, filterStatus, filterClient) ==
  SelectSeq(allInvoices,
            LAMBDA invoice : /\ statusMatch(invoice, filterStatus)
                             /\ clientMatch(invoice, filterClient))

\* filteredInvoices of the page's state
ManagerInvoicesPage_filteredInvoices(page) ==
  filteredInvoices(page.allInvoices, page.filterStatus, page.filterClient)

ManagerInvoicesPage_totalPages(page) ==
  TotalPages(Len(ManagerInvoicesPage_filteredInvoices(page)))

ManagerInvoicesPage_paginatedInvoices(page) ==
  PageSlice(ManagerInvoicesPage_filteredInvoices(page), page.currentPage)

\* a "next" that wraps around from the last page
ManagerInvoicesPage_handleNextPage_wrapping(page) ==
  IF page.currentPage < ManagerInvoicesPage_totalPages(page)
  THEN [page EXCEPT !.currentPage = @ + 1]
  ELSE [page EXCEPT !.currentPage = 1]

\* if (currentPage < totalPages) setCurrentPage(prev => prev + 1)
ManagerInvoicesPage_handleNextPage(page) ==
  IF page.currentPage < ManagerInvoicesPage_totalPages(page)
  THEN [page EXCEPT !.currentPage = @ + 1]
  ELSE page

\* if (currentPage > 1) setCurrentPage(prev => prev - 1)
ManagerInvoicesPage_handlePrevPage(page) ==
  IF page.currentPage > 1
  THEN [page EXCEPT !.currentPage = @ - 1]
  ELSE page

\* The pagination controls are rendered: the list is shown, on more than one
\* page.
ManagerInvoicesPage_paginationShown(page) ==
  /\ page.pc # "unmounted"
  /\ ~page.isLoading
  /\ Len(ManagerInvoicesPage_paginatedInvoices(page)) > 0
  /\ ManagerInvoicesPage_totalPages(page) > 1

\* the status Select's onValueChange
ManagerInvoicesPage_onStatusChange(value) ==
  /\ managerInvoices.pc # "unmounted"
  /\ managerInvoices' = [managerInvoices EXCEPT !.filterStatus = value,
                                                !.currentPage = 1]

\* the client Select's onValueChange; the Select is disabled while the page
\* loads and while it has no client
ManagerInvoicesPage_onClientChange(value) ==
  /\ managerInvoices.pc # "unmounted"
  /\ ~managerInvoices.isLoading
  /\ Len(managerInvoices.clients) # 0
  /\ \/ value = "all"
     \/ \E c \in Range(managerInvoices.clients) : c.id = value
  /\ managerInvoices' = [managerInvoices EXCEPT !.filterClient = value,
                                                !.currentPage = 1]

\* a click on the "next" button
ManagerInvoicesPage_onNextClick ==
  /\ ManagerInvoicesPage_paginationShown(managerInvoices)
  /\ managerInvoices' = ManagerInvoicesPage_handleNextPage(managerInvoices)

\* a click on the "previous" button
ManagerInvoicesPage_onPrevClick ==
  /\ ManagerInvoicesPage_paginationShown(managerInvoices)
  /\ managerInvoices' = ManagerInvoicesPage_handlePrevPage(managerInvoices)

\* Records of the datastore a run deletes, adds or toggles.
MaxChanged == 1

\* Timestamp.now() and serverTimestamp() of an addition: later than every
\* stored createdAt
LaterStamp == 3

ChangedRecords ==
  Cardinality({ id \in DOMAIN invoices : invoices[id] = NoDoc })
  + Cardinality({ id \in DOMAIN vehicles :
                    vehicles[id] # NoDoc /\ vehicles[id].createdAt = LaterStamp })
  + Cardinality({ u \in DOMAIN clients :
                    clients[u] # NoDoc /\ clients[u].updatedAt = "now" })

\* the delete button of a displayed row: setInvoiceToDelete(invoice),
\* setIsConfirmDeleteOpen(true)
ManagerInvoicesPage_onDeleteClick(row) ==
  /\ managerInvoices.pc = "idle"
  /\ ~managerInvoices.isLoading
  /\ ~managerInvoices.isConfirmDeleteOpen
  /\ managerInvoices.deletePc = "idle"
  /\ row \in DOMAIN ManagerInvoicesPage_paginatedInvoices(managerInvoices)
  /\ ChangedRecords < MaxChanged
  /\ managerInvoices' =
       [managerInvoices EXCEPT
          !.invoiceToDelete =
             ManagerInvoicesPage_paginatedInvoices(managerInvoices)[row],
          !.isConfirmDeleteOpen = TRUE]

\* the dialog's cancel button
ManagerInvoicesPage_onDeleteCancel ==
  /\ managerInvoices.isConfirmDeleteOpen
  /\ managerInvoices.deletePc = "idle"
  /\ managerInvoices' = [managerInvoices EXCEPT !.invoiceToDelete = NoDoc,
                                                !.isConfirmDeleteOpen = FALSE]

\* handleDeleteInvoice up to its first await
handleDeleteInvoice ==
  /\ managerInvoices.isConfirmDeleteOpen
  /\ managerInvoices.deletePc = "idle"
  /\ managerInvoices.invoiceToDelete # NoDoc
  /\ managerInvoices' =
       [managerInvoices EXCEPT
          !.deletePc = IF managerInvoices.invoiceToDelete.pdfPath # NullPath
                       THEN "deleteObject" ELSE "deleteDoc"]

\* handleDeleteInvoice: await deleteObject(pdfRef), its error only logged
handleDeleteInvoice_deleteObject ==
  /\ managerInvoices.deletePc = "deleteObject"
  /\ \/ blobs' = blobs \ {managerInvoices.invoiceToDelete.pdfPath}
     \/ blobs' = blobs
  /\ managerInvoices' = [managerInvoices EXCEPT !.deletePc = "deleteDoc"]
  /\ UNCHANGED invoices

\* handleDeleteInvoice: await deleteDoc(...), then fetchInvoicesData() up to
\* its first await, or the catch; the finally
handleDeleteInvoice_deleteDoc ==
  /\ managerInvoices.deletePc = "deleteDoc"
  /\ \/ /\ invoices' = [invoices EXCEPT ![managerInvoices.invoiceToDelete.id] = NoDoc]
        /\ managerInvoices' =
             [managerInvoices EXCEPT !.isLoading = TRUE,
                                     !.pc = "getDocs.invoices",
                                     !.isConfirmDeleteOpen = FALSE,
                                     !.invoiceToDelete = NoDoc,
                                     !.deletePc = "idle"]
     \/ /\ invoices' = invoices
        /\ managerInvoices' =
             [managerInvoices EXCEPT !.isConfirmDeleteOpen = FALSE,
                                     !.invoiceToDelete = NoDoc,
                                     !.deletePc = "idle"]
  /\ UNCHANGED blobs

\* The characters of the texts the enriched records hold.
Letters(text) ==
  CASE text = "Ana Gil" -> <<"A", "n", "a", " ", "G", "i", "l">>
    [] text = "Luis Ruiz" -> <<"L", "u", "i", "s", " ", "R", "u", "i", "z">>
    [] text = "ana@example.com" ->
         <<"a", "n", "a", "@", "e", "x", "a", "m", "p", "l", "e", ".", "c", "o", "m">>
    [] text = "luis@example.com" ->
         <<"l", "u", "i", "s", "@", "e", "x", "a", "m", "p", "l", "e", ".", "c", "o", "m">>
    [] text = "12345678Z" -> <<"1", "2", "3", "4", "5", "6", "7", "8", "Z">>
    [] text = "87654321X" -> <<"8", "7", "6", "5", "4", "3", "2", "1", "X">>
    [] text = "N/A" -> <<"N", "/", "A">>
    [] text = "" -> <<>>

\* String.prototype.toLowerCase, one character
LowerOf(c) ==
  CASE c = "A" -> "a" [] c = "B" -> "b" [] c = "D" -> "d" [] c = "F" -> "f"
    [] c = "G" -> "g" [] c = "I" -> "i" [] c = "L" -> "l" [] c = "N" -> "n"
    [] c = "O" -> "o" [] c = "R" -> "r" [] c = "S" -> "s" [] c = "V" -> "v"
    [] c = "W" -> "w" [] c = "X" -> "x" [] c = "Z" -> "z"
    [] OTHER -> c

\* String.prototype.toLowerCase
toLowerCase(text) == [i \in 1..Len(text) |-> LowerOf(text[i])]

\* String.prototype.includes
includes(text, term) ==
  \E start \in 0..(Len(text) - Len(term)) :
    \A i \in 1..Len(term) : text[start + i] = term[i]

\* What a manager types into a search box.
SearchTerms == {<<>>, <<"F", "O", "R", "D">>, <<"0", "7">>, <<"a", "n", "a">>}

\* The vehicles of the list views, numbered; make, model, licence plate and
\* VIN of a vehicle are text kept in its record, one per id.
ListVehicleIds ==
  <<"v01", "v02", "v03", "v04", "v05", "v06", "v07", "v08", "v09", "v10",
    "v11", "v12">>
VehicleNumber(id) ==
  IF id \in Range(ListVehicleIds)
  THEN CHOOSE n \in DOMAIN ListVehicleIds : ListVehicleIds[n] = id
  ELSE IF id = "veh1" THEN 91 ELSE 92
Digit(n) == <<"0", "1", "2", "3", "4", "5", "6", "7", "8", "9">>[n + 1]
Make(id) ==
  IF VehicleNumber(id) % 2 = 1 THEN <<"F", "o", "r", "d">> ELSE <<"S", "e", "a", "t">>
Model(id) ==
  IF VehicleNumber(id) % 2 = 1 THEN <<"F", "o", "c", "u", "s">>
  ELSE <<"I", "b", "i", "z", "a">>
LicensePlate(id) ==
  <<"1", "1", Digit(VehicleNumber(id) \div 10), Digit(VehicleNumber(id) % 10),
    "B", "B", "B">>
Vin(id) ==
  <<"W", "V", "W", Digit(VehicleNumber(id) \div 10), Digit(VehicleNumber(id) % 10)>>

\* the predicate of allVehicles.filter(...)
VehicleMatches(vehicle, searchTerm) ==
  LET term == toLowerCase(searchTerm)
  IN \/ includes(toLowerCase(LicensePlate(vehicle.id)), term)
     \/ /\ vehicle.ownerDni # ""
        /\ includes(toLowerCase(Letters(vehicle.ownerDni)), term)
     \/ includes(toLowerCase(Make(vehicle.id)), term)
     \/ includes(toLowerCase(Model(vehicle.id)), term)
     \/ /\ vehicle.ownerName # ""
        /\ includes(toLowerCase(Letters(vehicle.ownerName)), term)
     \/ /\ vehicle.clientEmail # ""
        /\ includes(toLowerCase(Letters(vehicle.clientEmail)), term)
     \/ includes(toLowerCase(Vin(vehicle.id)), term)

filteredVehicles(page) ==
  SelectSeq(page.allVehicles, LAMBDA vehicle : VehicleMatches(vehicle, page.searchTerm))

ManagerDashboardPage_totalPages(page) == TotalPages(Len(filteredVehicles(page)))

currentDisplayedVehicles(page) == PageSlice(filteredVehicles(page), page.currentPage)

ManagerDashboardPage_handleNextPage(page) ==
  IF page.currentPage < ManagerDashboardPage_totalPages(page)
  THEN [page EXCEPT !.currentPage = @ + 1]
  ELSE page

ManagerDashboardPage_handlePrevPage(page) ==
  IF page.currentPage > 1
  THEN [page EXCEPT !.currentPage = @ - 1]
  ELSE page

ManagerDashboardPage_paginationShown(page) ==
  /\ page.pc # "unmounted"
  /\ ~page.isLoading
  /\ Len(currentDisplayedVehicles(page)) > 0
  /\ ManagerDashboardPage_totalPages(page) > 1

\* the search Input's onChange: setSearchTerm(e.target.value)
ManagerDashboardPage_onSearchChange(term) ==
  /\ managerDashboard.pc # "unmounted"
  /\ term # managerDashboard.searchTerm
  /\ managerDashboard' = [managerDashboard EXCEPT !.searchTerm = term]

ManagerDashboardPage_onNextClick ==
  /\ ManagerDashboardPage_paginationShown(managerDashboard)
  /\ managerDashboard' = ManagerDashboardPage_handleNextPage(managerDashboard)

ManagerDashboardPage_onPrevClick ==
  /\ ManagerDashboardPage_paginationShown(managerDashboard)
  /\ managerDashboard' = ManagerDashboardPage_handlePrevPage(managerDashboard)

\* the dialog's trigger button
ManagerDashboardPage_openAddVehicleDialog ==
  /\ managerDashboard.pc # "unmounted"
  /\ ~managerDashboard.isAddVehicleDialogOpen
  /\ managerDashboard.submitPc = "idle"
  /\ managerDashboard' = [managerDashboard EXCEPT !.isAddVehicleDialogOpen = TRUE]

\* The id addDoc gives the new vehicle: one not in use.
NewVehicleId == "v12"

\* handleVehicleAdded(newVehicleData)
handleVehicleAdded(page, newVehicleData) ==
  [page EXCEPT
     !.allVehicles =
        SortDescBy(<<EnrichVehicle(newVehicleData, page.clients)>> \o @, createdAtOf),
     !.isAddVehicleDialogOpen = FALSE]

\* AddVehicleForm's onSubmit up to await addDoc(...), for a form without image
AddVehicleForm_onSubmit(ownerId) ==
  /\ managerDashboard.isAddVehicleDialogOpen
  /\ managerDashboard.submitPc = "idle"
  /\ \E c \in Range(managerDashboard.clients) : c.id = ownerId
  /\ vehicles[NewVehicleId] = NoDoc
  /\ ChangedRecords < MaxChanged
  /\ managerDashboard' = [managerDashboard EXCEPT !.submitPc = "addDoc",
                                                  !.ownerId = ownerId]
  /\ UNCHANGED vehicles

\* onSubmit after await addDoc(collection(db, "vehicles"), payload):
\* onVehicleAdded(newVehicleForUI), or the catch
AddVehicleForm_onSubmit_addDoc ==
  /\ managerDashboard.submitPc = "addDoc"
  /\ LET payload == [exists |-> TRUE, ownerId |-> managerDashboard.ownerId,
                     createdAt |-> LaterStamp]
     IN \/ /\ vehicles' = [vehicles EXCEPT ![NewVehicleId] = payload]
           /\ managerDashboard' =
                [handleVehicleAdded(managerDashboard, WithId(NewVehicleId, payload))
                   EXCEPT !.submitPc = "idle", !.ownerId = Null]
        \/ /\ vehicles' = vehicles
           /\ managerDashboard' = [managerDashboard EXCEPT !.submitPc = "idle",
                                                           !.ownerId = Null]

(***************************************************************************)
(* ManagerClientsPage.                                                     *)
(***************************************************************************)
ManagerClientsRoute == "/manager/clients"

\* the predicate of clients.filter(...)
ClientMatches(client, searchTerm) ==
  LET term == toLowerCase(searchTerm)
  IN \/ includes(toLowerCase(Letters(FullName(client.id))), term)
     \/ includes(toLowerCase(Letters(Email(client.id))), term)
     \/ includes(toLowerCase(Letters(IF client.identityDocument # Null
                                     THEN client.identityDocument ELSE "")),
                 term)

filteredClients(page) ==
  SelectSeq(page.clients, LAMBDA client : ClientMatches(client, page.searchTerm))

ManagerClientsPage_totalPages(page) == TotalPages(Len(filteredClients(page)))

currentDisplayedClients(page) == PageSlice(filteredClients(page), page.currentPage)

ManagerClientsPage_handleNextPage(page) ==
  IF page.currentPage < ManagerClientsPage_totalPages(page)
  THEN [page EXCEPT !.currentPage = @ + 1]
  ELSE page

ManagerClientsPage_handlePrevPage(page) ==
  IF page.currentPage > 1
  THEN [page EXCEPT !.currentPage = @ - 1]
  ELSE page

\* the page's effect calls fetchClients, which runs up to its await
ManagerClientsPage_mount ==
  /\ route' = ManagerClientsRoute
  /\ managerClients' = [ManagerClientsUnmounted EXCEPT !.pc = "getDocs.clients"]
  /\ managerDashboard' = ManagerDashboardUnmounted
  /\ managerVehicle' = ManagerVehicleUnmounted
  /\ managerInvoices' = ManagerInvoicesUnmounted
  /\ batch' = BatchIdle
  /\ clientVehicle' = ClientVehicleUnmounted
  /\ UNCHANGED <<currentUser, loginVars>>

\* fetchClients: await getDocs(clients ordered by lastName, firstName), the
\* catch, the finally
fetchClients ==
  /\ managerClients.pc = "getDocs.clients"
  /\ \/ managerClients' =
          [managerClients EXCEPT !.clients = SnapshotDocs(clients, AnyDoc),
                                 !.isLoading = FALSE,
                                 !.pc = "idle"]
     \/ managerClients' = [managerClients EXCEPT !.isLoading = FALSE,
                                                 !.pc = "idle"]

\* the search Input's onChange: setSearchTerm(e.target.value)
ManagerClientsPage_onSearchChange(term) ==
  /\ managerClients.pc # "unmounted"
  /\ term # managerClients.searchTerm
  /\ managerClients' = [managerClients EXCEPT !.searchTerm = term]

\* openConfirmToggleActiveDialog(client), from a displayed row
openConfirmToggleActiveDialog(row) ==
  /\ managerClients.pc = "idle"
  /\ ~managerClients.isLoading
  /\ ~managerClients.isConfirmToggleActiveDialogOpen
  /\ managerClients.togglePc = "idle"
  /\ row \in DOMAIN currentDisplayedClients(managerClients)
  /\ \/ ChangedRecords < MaxChanged
     \/ currentDisplayedClients(managerClients)[row].updatedAt = "now"
  /\ managerClients' =
       [managerClients EXCEPT
          !.clientToToggleActive = currentDisplayedClients(managerClients)[row],
          !.isConfirmToggleActiveDialogOpen = TRUE]

\* the dialog's cancel button
ManagerClientsPage_onToggleCancel ==
  /\ managerClients.isConfirmToggleActiveDialogOpen
  /\ managerClients.togglePc = "idle"
  /\ managerClients' =
       [managerClients EXCEPT !.clientToToggleActive = NoDoc,
                              !.isConfirmToggleActiveDialogOpen = FALSE]

\* handleToggleClientActive up to await updateDoc(...)
handleToggleClientActive ==
  /\ managerClients.isConfirmToggleActiveDialogOpen
  /\ managerClients.togglePc = "idle"
  /\ managerClients.clientToToggleActive # NoDoc
  /\ managerClients' = [managerClients EXCEPT !.togglePc = "updateDoc"]
  /\ UNCHANGED clients

\* an update that also writes the role
ToggleActiveUpdate_demoting(existing, newIsActiveStatus) ==
  [existing EXCEPT !.isActive = newIsActiveStatus, !.updatedAt = "now",
                   !.role = "client"]

\* updateDoc(clientRef, { isActive: newIsActiveStatus, updatedAt: serverTimestamp() })
ToggleActiveUpdate(existing, newIsActiveStatus) ==
  [existing EXCEPT !.isActive = newIsActiveStatus, !.updatedAt = "now"]

\* handleToggleClientActive after await updateDoc(...): the setClients, or the
\* catch; the finally.  updateDoc fails on a record that does not exist.
handleToggleClientActive_updateDoc ==
  /\ managerClients.togglePc = "updateDoc"
  /\ LET clientToToggleActive == managerClients.clientToToggleActive
         newIsActiveStatus == ~clientToToggleActive.isActive
         updatedClient == [clientToToggleActive EXCEPT !.isActive = newIsActiveStatus,
                                                       !.updatedAt = "now"]
     IN \/ /\ clients[clientToToggleActive.id] # NoDoc
           /\ clients' =
                [clients EXCEPT ![clientToToggleActive.id] =
                                   ToggleActiveUpdate(@, newIsActiveStatus)]
           /\ managerClients' =
                [managerClients EXCEPT
                   !.clients = [i \in 1..Len(@) |->
                                  IF @[i].id = clientToToggleActive.id
                                  THEN updatedClient ELSE @[i]],
                   !.isConfirmToggleActiveDialogOpen = FALSE,
                   !.clientToToggleActive = NoDoc,
                   !.togglePc = "idle"]
        \/ /\ clients' = clients
           /\ managerClients' =
                [managerClients EXCEPT
                   !.isConfirmToggleActiveDialogOpen = FALSE,
                   !.clientToToggleActive = NoDoc,
                   !.togglePc = "idle"]

(***************************************************************************)
(* The list views, opened by the manager u1 over a datastore of twenty-one *)
(* invoices, eleven vehicles and two clients.                              *)
(***************************************************************************)
ListInvoiceIds ==
  <<"i01", "i02", "i03", "i04", "i05", "i06", "i07", "i08", "i09", "i10",
    "i11", "i12", "i13", "i14", "i15", "i16", "i17", "i18", "i19", "i20",
    "i21">>

ListPdfPath == <<"invoice_pdfs", "v01", "F-1", "scan.pdf">>

\* the n-th invoice of the store
ListedInvoice(n) ==
  [SavedInvoice(IF n % 2 = 0 THEN "v01" ELSE "v02",
                IF n % 2 = 0 THEN "u1" ELSE "u2",
                1 + (n % 2))
     EXCEPT !.status = CASE n % 3 = 0 -> "paid"
                         [] n % 3 = 1 -> "pending"
                         [] OTHER -> "overdue",
            !.pdfPath = IF n = 20 THEN ListPdfPath ELSE NullPath]

\* the n-th vehicle of the store
ListedVehicle(n) ==
  [exists |-> TRUE, ownerId |-> IF n % 3 = 0 THEN "u1" ELSE "u2",
   createdAt |-> 1 + (n % 2)]

invoiceFormVars ==
  <<isManageInvoiceDialogOpen, invoiceToEdit, formValues, formErrors,
    formListError, isSubmitting, submitPc, updatedPdfPath, submitOutcome,
    submitOps>>

sessionVars ==
  <<accounts, currentUser, route, loginFlow, loginPc, loginUser, loginSnap,
    clientSnap>>

InitListViews ==
  /\ invoices = [id \in Range(ListInvoiceIds) |->
                   ListedInvoice(CHOOSE n \in DOMAIN ListInvoiceIds :
                                   ListInvoiceIds[n] = id)]
  /\ blobs = {ListPdfPath}
  /\ InvoiceFormIdle
  /\ accounts = Uids
  /\ clients = [u \in Uids |->
                  IF u = "u1" THEN ClientRecord("manager", "12345678Z")
                  ELSE ClientRecord("client", "87654321X")]
  /\ currentUser = "u1"
  /\ route = HomePage
  /\ NoLoginRunning
  /\ vehicles = [id \in Range(ListVehicleIds) |->
                   IF id = NewVehicleId THEN NoDoc
                   ELSE ListedVehicle(VehicleNumber(id))]
  /\ maintenanceItems = [m \in MaintenanceIds |-> NoDoc]
  /\ PagesUnmounted

NextListViews ==
  \/ ManagerInvoicesPage_mount /\ UNCHANGED <<formVars, invoiceVars, dataVars>>
  \/ fetchInvoicesData_invoices
       /\ UNCHANGED <<formVars, invoiceVars, dataVars, authVars, managerDashboard,
                      managerVehicle, clientVehicle, managerClients>>
  \/ fetchInvoicesData_clients
       /\ UNCHANGED <<formVars, invoiceVars, dataVars, authVars, managerDashboard,
                      managerVehicle, clientVehicle, managerClients>>
  \/ getDocumentsInBatches_query
       /\ UNCHANGED <<formVars, invoiceVars, dataVars, authVars, managerDashboard,
                      managerVehicle, managerInvoices, clientVehicle,
                      managerClients>>
  \/ fetchInvoicesData_enrich
       /\ UNCHANGED <<formVars, invoiceVars, dataVars, authVars, managerDashboard,
                      managerVehicle, clientVehicle, managerClients>>
  \/ fetchInvoicesData_catch
       /\ UNCHANGED <<formVars, invoiceVars, dataVars, authVars, managerDashboard,
                      managerVehicle, clientVehicle, managerClients>>
  \/ \E value \in StatusChoices :
       ManagerInvoicesPage_onStatusChange(value)
         /\ UNCHANGED <<formVars, invoiceVars, dataVars, authVars, managerDashboard,
                        managerVehicle, batch, clientVehicle, managerClients>>
  \/ \E value \in ClientChoices :
       ManagerInvoicesPage_onClientChange(value)
         /\ UNCHANGED <<formVars, invoiceVars, dataVars, authVars, managerDashboard,
                        managerVehicle, batch, clientVehicle, managerClients>>
  \/ ManagerInvoicesPage_onNextClick
       /\ UNCHANGED <<formVars, invoiceVars, dataVars, authVars, managerDashboard,
                      managerVehicle, batch, clientVehicle, managerClients>>
  \/ ManagerInvoicesPage_onPrevClick
       /\ UNCHANGED <<formVars, invoiceVars, dataVars, authVars, managerDashboard,
                      managerVehicle, batch, clientVehicle, managerClients>>
  \/ \E row \in {1} :
       ManagerInvoicesPage_onDeleteClick(row)
         /\ UNCHANGED <<formVars, invoiceVars, dataVars, authVars, managerDashboard,
                        managerVehicle, batch, clientVehicle, managerClients>>
  \/ ManagerInvoicesPage_onDeleteCancel
       /\ UNCHANGED <<formVars, invoiceVars, dataVars, authVars, managerDashboard,
                      managerVehicle, batch, clientVehicle, managerClients>>
  \/ handleDeleteInvoice
       /\ UNCHANGED <<formVars, invoiceVars, dataVars, authVars, managerDashboard,
                      managerVehicle, batch, clientVehicle, managerClients>>
  \/ handleDeleteInvoice_deleteObject
       /\ UNCHANGED <<formVars, invoiceFormVars, dataVars, authVars, managerDashboard,
                      managerVehicle, batch, clientVehicle, managerClients>>
  \/ handleDeleteInvoice_deleteDoc
       /\ UNCHANGED <<formVars, invoiceFormVars, dataVars, authVars, managerDashboard,
                      managerVehicle, batch, clientVehicle, managerClients>>
  \/ ManagerDashboardPage_mount /\ UNCHANGED <<formVars, invoiceVars, dataVars>>
  \/ ManagerDashboardPage_onAuthStateChanged
       /\ UNCHANGED <<formVars, invoiceVars, dataVars, authVars, managerVehicle,
                      managerInvoices, batch, clientVehicle, managerClients>>
  \/ fetchData_clients
       /\ UNCHANGED <<formVars, invoiceVars, dataVars, authVars, managerVehicle,
                      managerInvoices, batch, clientVehicle, managerClients>>
  \/ fetchData_vehicles
       /\ UNCHANGED <<formVars, invoiceVars, dataVars, authVars, managerVehicle,
                      managerInvoices, batch, clientVehicle, managerClients>>
  \/ \E term \in SearchTerms :
       ManagerDashboardPage_onSearchChange(term)
         /\ UNCHANGED <<formVars, invoiceVars, dataVars, authVars, managerVehicle,
                        managerInvoices, batch, clientVehicle, managerClients>>
  \/ ManagerDashboardPage_onNextClick
       /\ UNCHANGED <<formVars, invoiceVars, dataVars, authVars, managerVehicle,
                      managerInvoices, batch, clientVehicle, managerClients>>
  \/ ManagerDashboardPage_onPrevClick
       /\ UNCHANGED <<formVars, invoiceVars, dataVars, authVars, managerVehicle,
                      managerInvoices, batch, clientVehicle, managerClients>>
  \/ ManagerDashboardPage_openAddVehicleDialog
       /\ UNCHANGED <<formVars, invoiceVars, dataVars, authVars, managerVehicle,
                      managerInvoices, batch, clientVehicle, managerClients>>
  \/ \E ownerId \in Uids :
       AddVehicleForm_onSubmit(ownerId)
         /\ UNCHANGED <<formVars, invoiceVars, maintenanceItems, authVars, managerVehicle,
                        managerInvoices, batch, clientVehicle, managerClients>>
  \/ AddVehicleForm_onSubmit_addDoc
       /\ UNCHANGED <<formVars, invoiceVars, maintenanceItems, authVars, managerVehicle,
                      managerInvoices, batch, clientVehicle, managerClients>>
  \/ ManagerClientsPage_mount /\ UNCHANGED <<formVars, invoiceVars, dataVars>>
  \/ fetchClients
       /\ UNCHANGED <<formVars, invoiceVars, dataVars, authVars, managerDashboard,
                      managerVehicle, managerInvoices, batch, clientVehicle>>
  \/ \E term \in SearchTerms :
       ManagerClientsPage_onSearchChange(term)
         /\ UNCHANGED <<formVars, invoiceVars, dataVars, authVars, managerDashboard,
                        managerVehicle, managerInvoices, batch, clientVehicle>>
  \/ \E row \in {1, 2} :
       openConfirmToggleActiveDialog(row)
         /\ UNCHANGED <<formVars, invoiceVars, dataVars, authVars, managerDashboard,
                        managerVehicle, managerInvoices, batch, clientVehicle>>
  \/ ManagerClientsPage_onToggleCancel
       /\ UNCHANGED <<formVars, invoiceVars, dataVars, authVars, managerDashboard,
                      managerVehicle, managerInvoices, batch, clientVehicle>>
  \/ handleToggleClientActive
       /\ UNCHANGED <<formVars, invoiceVars, dataVars, sessionVars, managerDashboard,
                      managerVehicle, managerInvoices, batch, clientVehicle>>
  \/ handleToggleClientActive_updateDoc
       /\ UNCHANGED <<formVars, invoiceVars, dataVars, sessionVars, managerDashboard,
                      managerVehicle, managerInvoices, batch, clientVehicle>>

SpecListViews == InitListViews /\ [][NextListViews]_vars


\* C11: in every list view a step that changes a filter (the status select or
\* the client select of the invoices list, the search text of the vehicle
\* list and of the client list) leaves currentPage at 1.
C11_FilterChangeResetsPage ==
  [][ /\ ( /\ managerInvoices.pc # "unmounted"
           /\ managerInvoices'.pc # "unmounted"
           /\ \/ managerInvoices'.filterStatus # managerInvoices.filterStatus
              \/ managerInvoices'.filterClient # managerInvoices.filterClient )
        => managerInvoices'.currentPage = 1
      /\ ( /\ managerDashboard.pc # "unmounted"
           /\ managerDashboard'.pc # "unmounted"
           /\ managerDashboard'.searchTerm # managerDashboard.searchTerm )
        => managerDashboard'.currentPage = 1
      /\ ( /\ managerClients.pc # "unmounted"
           /\ managerClients'.pc # "unmounted"
           /\ managerClients'.searchTerm # managerClients.searchTerm )
        => managerClients'.currentPage = 1 ]_vars

\* C12: in every list view whose filtered list is not empty, the current page
\* is at least 1 and at most the number of pages, whatever navigation,
\* filter or search changes, additions, deletions and reloads came before.
C12_PageWithinRange ==
  /\ ( /\ managerInvoices.pc # "unmounted"
       /\ Len(ManagerInvoicesPage_filteredInvoices(managerInvoices)) > 0 )
     => /\ 1 <= managerInvoices.currentPage
        /\ managerInvoices.currentPage <= ManagerInvoicesPage_totalPages(managerInvoices)
  /\ ( /\ managerDashboard.pc # "unmounted"
       /\ Len(filteredVehicles(managerDashboard)) > 0 )
     => /\ 1 <= managerDashboard.currentPage
        /\ managerDashboard.currentPage <= ManagerDashboardPage_totalPages(managerDashboard)
  /\ ( /\ managerClients.pc # "unmounted"
       /\ Len(filteredClients(managerClients)) > 0 )
     => /\ 1 <= managerClients.currentPage
        /\ managerClients.currentPage <= ManagerClientsPage_totalPages(managerClients)

\* C13: "next" on the last page and "previous" on page 1 are no-ops: the
\* handler leaves currentPage and every other field of the view as they are
\* (the step changes nothing else, the handler being all it does).
C13_BoundaryNavigationIsNoOp ==
  /\ managerInvoices.pc # "unmounted" =>
       /\ managerInvoices.currentPage = ManagerInvoicesPage_totalPages(managerInvoices)
            => ManagerInvoicesPage_handleNextPage(managerInvoices) = managerInvoices
       /\ managerInvoices.currentPage = 1
            => ManagerInvoicesPage_handlePrevPage(managerInvoices) = managerInvoices
  /\ managerDashboard.pc # "unmounted" =>
       /\ managerDashboard.currentPage = ManagerDashboardPage_totalPages(managerDashboard)
            => ManagerDashboardPage_handleNextPage(managerDashboard) = managerDashboard
       /\ managerDashboard.currentPage = 1
            => ManagerDashboardPage_handlePrevPage(managerDashboard) = managerDashboard
  /\ managerClients.pc # "unmounted" =>
       /\ managerClients.currentPage = ManagerClientsPage_totalPages(managerClients)
            => ManagerClientsPage_handleNextPage(managerClients) = managerClients
       /\ managerClients.currentPage = 1
            => ManagerClientsPage_handlePrevPage(managerClients) = managerClients

\* the invoices list on the last of its three pages, the controls shown
C13_Witness ==
  /\ ManagerInvoicesPage_paginationShown(managerInvoices)
  /\ managerInvoices.currentPage = 3
  /\ ManagerInvoicesPage_totalPages(managerInvoices) = 3

\* the pages 1..p of a list, one after the other
RECURSIVE PagesUpTo(_, _)
PagesUpTo(list, p) ==
  IF p = 0 THEN <<>> ELSE PagesUpTo(list, p - 1) \o PageSlice(list, p)

\* A filtered list is cut into ceil(count / 10) pages; page p holds the items
\* at (p-1)*10 .. min(p*10, count) - 1 (counted from 0), at most 10 and at
\* least one; the pages in order make up the list; the rows displayed are
\* the current page.
PagedInTens(list, displayed, currentPage) ==
  LET count == Len(list)
      totalPages == TotalPages(count)
  IN /\ totalPages * 10 >= count
     /\ (totalPages - 1) * 10 < count
     /\ \A p \in 1..totalPages :
          LET first == (p - 1) * 10
              last == IF p * 10 < count THEN p * 10 ELSE count
          IN /\ Len(PageSlice(list, p)) = last - first
             /\ last - first \in 1..10
             /\ \A i \in 1..(last - first) : PageSlice(list, p)[i] = list[first + i]
     /\ PagesUpTo(list, totalPages) = list
     /\ currentPage \in 1..totalPages => displayed = PageSlice(list, currentPage)

\* C14: each list view shows its filtered list in pages of ten: totalPages is
\* ceil(filteredCount / 10), page p is the items (p-1)*10 .. min(p*10,
\* count)-1, and the pages partition the filtered list in order.
C14_PagesPartitionFilteredList ==
  /\ managerInvoices.pc # "unmounted" =>
       /\ PagedInTens(ManagerInvoicesPage_filteredInvoices(managerInvoices),
                      ManagerInvoicesPage_paginatedInvoices(managerInvoices),
                      managerInvoices.currentPage)
       /\ ManagerInvoicesPage_totalPages(managerInvoices) =
            TotalPages(Len(ManagerInvoicesPage_filteredInvoices(managerInvoices)))
  /\ managerDashboard.pc # "unmounted" =>
       /\ PagedInTens(filteredVehicles(managerDashboard),
                      currentDisplayedVehicles(managerDashboard),
                      managerDashboard.currentPage)
       /\ ManagerDashboardPage_totalPages(managerDashboard) =
            TotalPages(Len(filteredVehicles(managerDashboard)))

\* the invoices list on the second of three pages, twenty-one invoices in all
C14_Witness ==
  /\ managerInvoices.pc = "idle"
  /\ ~managerInvoices.isLoading
  /\ Len(ManagerInvoicesPage_filteredInvoices(managerInvoices)) = 21
  /\ managerInvoices.currentPage = 2
  /\ Len(ManagerInvoicesPage_paginatedInvoices(managerInvoices)) = 10

\* the invoices of a list that the status select alone keeps
ByStatus(list, filterStatus) ==
  SelectSeq(list, LAMBDA invoice : statusMatch(invoice, filterStatus))

\* the invoices of a list that the client select alone keeps
ByClient(list, filterClient) ==
  SelectSeq(list, LAMBDA invoice : clientMatch(invoice, filterClient))

\* C15: filtering the invoices by status and then by owner gives the same
\* list as filtering by owner and then by status, and it is the filtered
\* list of the view, for every pair of values of the two selects.
C15_FiltersCommute ==
  managerInvoices.pc # "unmounted" =>
    /\ \A filterStatus \in InvoiceStatuses \cup {"all"} :
         \A filterClient \in Uids \cup {"all"} :
           /\ ByClient(ByStatus(managerInvoices.allInvoices, filterStatus), filterClient)
                = ByStatus(ByClient(managerInvoices.allInvoices, filterClient), filterStatus)
           /\ filteredInvoices(managerInvoices.allInvoices, filterStatus, filterClient)
                = ByClient(ByStatus(managerInvoices.allInvoices, filterStatus), filterClient)
    /\ ManagerInvoicesPage_filteredInvoices(managerInvoices)
         = ByStatus(ByClient(managerInvoices.allInvoices, managerInvoices.filterClient),
                    managerInvoices.filterStatus)

\* both selects set, each leaving out invoices the other keeps
C15_Witness ==
  /\ managerInvoices.pc = "idle"
  /\ managerInvoices.filterStatus = "paid"
  /\ managerInvoices.filterClient = "u2"
  /\ Len(ManagerInvoicesPage_filteredInvoices(managerInvoices)) = 4
  /\ Len(ByStatus(managerInvoices.allInvoices, "paid")) = 7
  /\ Len(ByClient(managerInvoices.allInvoices, "u2")) = 11

\* C16: a step of handleToggleClientActive (deactivating or reactivating a
\* client) changes at most the isActive and updatedAt fields of the record of
\* the client being toggled: every other client record, every vehicle,
\* invoice and maintenance item and every blob stays as it is.
C16_ToggleChangesOnlyIsActive ==
  [][ ( /\ managerClients.clientToToggleActive # NoDoc
        /\ \/ managerClients.togglePc = "updateDoc"
           \/ managerClients'.togglePc = "updateDoc" )
      => LET id == managerClients.clientToToggleActive.id
         IN /\ vehicles' = vehicles
            /\ invoices' = invoices
            /\ maintenanceItems' = maintenanceItems
            /\ blobs' = blobs
            /\ accounts' = accounts
            /\ \A u \in Uids : u # id => clients'[u] = clients[u]
            /\ (clients[id] = NoDoc) = (clients'[id] = NoDoc)
            /\ clients[id] # NoDoc =>
                 [clients'[id] EXCEPT !.isActive = clients[id].isActive,
                                      !.updatedAt = clients[id].updatedAt]
                   = clients[id] ]_vars

\* a client deactivated, the clients list showing it, with vehicles and
\* invoices of theirs in the store
C16_Witness ==
  /\ managerClients.pc = "idle"
  /\ managerClients.togglePc = "idle"
  /\ \E u \in Uids :
       /\ clients[u] # NoDoc
       /\ ~clients[u].isActive
       /\ clients[u].updatedAt = "now"
       /\ \E i \in Range(managerClients.clients) : i.id = u /\ ~i.isActive
       /\ \E v \in DOMAIN vehicles : vehicles[v] # NoDoc /\ vehicles[v].ownerId = u
       /\ \E i \in DOMAIN invoices : invoices[i] # NoDoc /\ invoices[i].clientId = u
\* round2(x / 10^4), x a number of hundredths times 121 hundredths: the
\* decimal rounding, half up, of subtotal * 1.21.
Round2OfSubtotalWithVat(subtotal) ==
  Round2OfTenThousandths(subtotal * (100 + VAT_RATE_Hundredths))

\* parseFloat((subtotal * 1.21).toFixed(2)): the same rounding done in
\* binary64, as the form does its own.
Fixed2OfSubtotalWithVat(subtotal) ==
  ToFixed2(DblMul(DecToDouble(subtotal, 100),
                  DecToDouble(100 + VAT_RATE_Hundredths, 100)))

\* C17: the totalAmount of every invoice saved through the form equals
\* round2(subtotalAmount * 1.21), round2 taken either on the decimal value
\* or on the binary64 value.
C17_TotalIsSubtotalTimes121 ==
  \A id \in InvoiceIds :
    invoices[id] # NoDoc =>
      \/ invoices[id].totalAmount =
           Round2OfSubtotalWithVat(invoices[id].subtotalAmount)
      \/ invoices[id].totalAmount =
           Fixed2OfSubtotalWithVat(invoices[id].subtotalAmount)

\* C18: whenever the client vehicle page renders vehicle data, the rendered
\* vehicle's ownerId is the id of the user the page holds as signed in,
\* under every interleaving of the callbacks and their pending reads.
C18_RenderedVehicleIsCurrentUsers ==
  (clientVehicle.pc = "mounted" /\ Render(clientVehicle).screen = "vehicle") =>
    Render(clientVehicle).vehicle.ownerId = clientVehicle.currentUser

\* The reads of the manager vehicle page's routine, in the order of the code.
ReadRank(pc) ==
  CASE pc = "getDoc.vehicle" -> 1
    [] pc = "getDoc.owner" -> 2
    [] pc = "getDocs.invoices" -> 3
    [] pc = "getDocs.maintenance" -> 4
    [] OTHER -> 0

SectionOf(pc) ==
  CASE pc = "getDoc.owner" -> "owner"
    [] pc = "getDocs.invoices" -> "invoices"
    [] pc = "getDocs.maintenance" -> "maintenance"
    [] OTHER -> "vehicle"

Sections == {"vehicle", "owner", "invoices", "maintenance"}

\* C19: the routine of the manager vehicle page awaits its reads one at a
\* time in the order vehicle, owner, invoices, maintenance items; the end of
\* the owner, invoices or maintenance read, failed or not, leaves the loaded
\* vehicle in place, touches the error and the loading flag of its own
\* section only, and is followed by the next read; when the routine ends every
\* loading flag is false.
C19_ReadsInOrderEachContained ==
  [][(/\ ReadRank(managerVehicle.pc) > 0
      /\ managerVehicle'.pc \notin {"unmounted", "onAuthStateChanged"})
     => /\ managerVehicle'.pc # managerVehicle.pc =>
             \/ ReadRank(managerVehicle'.pc) > ReadRank(managerVehicle.pc)
             \/ managerVehicle'.pc = "idle"
        /\ (ReadRank(managerVehicle.pc) \in {2, 3}
              /\ managerVehicle'.pc # managerVehicle.pc) =>
             ReadRank(managerVehicle'.pc) = ReadRank(managerVehicle.pc) + 1
        /\ (ReadRank(managerVehicle.pc) > 1
              /\ managerVehicle'.pc # managerVehicle.pc) =>
             /\ managerVehicle'.vehicleData = managerVehicle.vehicleData
             /\ managerVehicle'.vehicleData # NoDoc
             /\ \A s \in Sections \ {SectionOf(managerVehicle.pc)} :
                  /\ managerVehicle'.fetchErrors[s] = managerVehicle.fetchErrors[s]
                  /\ managerVehicle'.dataLoading[s] = managerVehicle.dataLoading[s]
             /\ ~managerVehicle'.dataLoading[SectionOf(managerVehicle.pc)]
        /\ managerVehicle'.pc = "idle" =>
             managerVehicle'.dataLoading = AllLoading(FALSE)]_vars

C19_Witness ==
  /\ managerVehicle.pc = "idle"
  /\ managerVehicle.vehicleData # NoDoc
  /\ managerVehicle.fetchErrors.owner # Null
  /\ managerVehicle.fetchErrors.invoices # Null
  /\ managerVehicle.fetchErrors.maintenance = Null
  /\ managerVehicle.maintenanceItems # <<>>
  /\ managerVehicle.dataLoading = AllLoading(FALSE)

\* C20: on the client vehicle page a failure of the maintenance-items read
\* neither prevents the invoices read from being issued nor removes the
\* loaded vehicle from the view.
C20_MaintenanceFailureContained ==
  [][\A r \in RoutineIds :
       (/\ clientVehicle.pc = "mounted"
        /\ clientVehicle'.pc = "mounted"
        /\ clientVehicle.routines[r].pc = "getDocs.maintenanceItems"
        /\ clientVehicle'.routines[r].outcome \in ErrorCodes)
       => /\ "invoices" \in clientVehicle'.routines[r].reads
          /\ clientVehicle'.vehicleData = clientVehicle.vehicleData]_vars

(***************************************************************************)
(* ManagerClientDetailPage: the effect on the route's clientId and the     *)
(* fetchClientData it starts.  A run that was started is not cancelled     *)
(* when the clientId changes; runs holds every run with the await it is    *)
(* suspended at.                                                           *)
(***************************************************************************)
ManagerClientDetailRoute == "/manager/clients/[clientId]"

\* the most runs of the effect in one visit of the page
MaxLoads == 2

\* params.clientId; Null is a missing one
ClientIdParams == Uids \cup {Null}

\* useEffect(..., [clientId, t_detail]) up to fetchClientData's first await
ManagerClientDetailPage_effect(clientId) ==
  /\ Len(clientDetail.runs) < MaxLoads
  /\ clientDetail.runs = <<>> \/ clientId # clientDetail.clientId
  /\ clientDetail' =
       IF clientId # Null
       THEN [clientDetail EXCEPT
               !.clientId = clientId,
               !.isLoadingClient = TRUE,
               !.clientError = Null,
               !.client = NoDoc,
               !.isLoadingVehicles = TRUE,
               !.vehiclesError = Null,
               !.clientVehicles = <<>>,
               !.runs = Append(@, [clientId |-> clientId, pc |-> "getDoc"])]
       ELSE [clientDetail EXCEPT
               !.clientId = clientId,
               !.clientError = "errorInvalidId",
               !.isLoadingClient = FALSE,
               !.isLoadingVehicles = FALSE,
               !.runs = Append(@, [clientId |-> clientId, pc |-> "done"])]

\* fetchClientData: await getDoc(clientDocRef), the branches on the snapshot,
\* the outer catch and finally
fetchClientData_getDoc(r) ==
  /\ r \in DOMAIN clientDetail.runs
  /\ clientDetail.runs[r].pc = "getDoc"
  /\ LET id == clientDetail.runs[r].clientId
     IN \/ /\ clients[id] # NoDoc
           /\ clientDetail' =
                [clientDetail EXCEPT !.client = WithId(id, clients[id]),
                                     !.clientError = Null,
                                     !.runs[r].pc = "getDocs"]
        \/ /\ clients[id] = NoDoc
           /\ clientDetail' =
                [clientDetail EXCEPT !.clientError = "errorNotFound",
                                     !.isLoadingClient = FALSE,
                                     !.runs[r].pc = "done"]
        \/ clientDetail' =
             [clientDetail EXCEPT !.clientError = "errorFetching",
                                  !.isLoadingClient = FALSE,
                                  !.runs[r].pc = "done"]

\* fetchClientData: await getDocs(vehiclesQuery), its catch and finally, and
\* the outer finally
fetchClientData_getDocs(r) ==
  /\ r \in DOMAIN clientDetail.runs
  /\ clientDetail.runs[r].pc = "getDocs"
  /\ LET id == clientDetail.runs[r].clientId
         fetchedVehicles == SnapshotDocs(vehicles, LAMBDA d : d.ownerId = id)
     IN \/ clientDetail' =
             [clientDetail EXCEPT
                !.clientVehicles = SortDescBy(fetchedVehicles, createdAtOf),
                !.vehiclesError = Null,
                !.isLoadingVehicles = FALSE,
                !.isLoadingClient = FALSE,
                !.runs[r].pc = "done"]
        \/ clientDetail' =
             [clientDetail EXCEPT
                !.vehiclesError = "errorFetchingVehicles",
                !.isLoadingVehicles = FALSE,
                !.isLoadingClient = FALSE,
                !.runs[r].pc = "done"]

\* A manager on the page of a client, over any small datastore.
InitClientDetail ==
  /\ invoices = [i \in ListedInvoiceIds |-> NoDoc]
  /\ blobs = {}
  /\ InvoiceFormIdle
  /\ accounts = Uids
  /\ clients \in ViewClientStores
  /\ currentUser = "u1"
  /\ route = ManagerClientDetailRoute
  /\ NoLoginRunning
  /\ vehicles \in ViewVehicleStores
  /\ maintenanceItems = [m \in MaintenanceIds |-> NoDoc]
  /\ PagesUnmounted

NextClientDetail ==
  \/ \E clientId \in ClientIdParams :
       ManagerClientDetailPage_effect(clientId)
         /\ UNCHANGED <<invoiceVars, authVars, dataVars, pageVars, vehicleDetail,
                        editVehicle, invoiceSection, editProfile>>
  \/ \E r \in 1..MaxLoads :
       fetchClientData_getDoc(r)
         /\ UNCHANGED <<invoiceVars, authVars, dataVars, pageVars, vehicleDetail,
                        editVehicle, invoiceSection, editProfile>>
  \/ \E r \in 1..MaxLoads :
       fetchClientData_getDocs(r)
         /\ UNCHANGED <<invoiceVars, authVars, dataVars, pageVars, vehicleDetail,
                        editVehicle, invoiceSection, editProfile>>

SpecClientDetail == InitClientDetail /\ [][NextClientDetail]_vars

(***************************************************************************)
(* The manager's page of vehicle veh1 once it is loaded: EditVehicleForm,  *)
(* the confirm-delete dialogs of the page and of InvoiceManagementSection, *)
(* and the invoice dialog with the owner of the vehicle as its clientId.   *)
(***************************************************************************)
ImageFiles == {"car.jpg"}

\* `vehicle_images/${vehicle.vin || vehicle.id}-${selectedImageFile.name}`
VehicleImagePath(vehicle, file) == <<"vehicle_images", vehicle.id, file>>

\* a vehicle record as the forms of the page write it
StoredVehicle(ownerId, imagePath) ==
  [exists |-> TRUE, ownerId |-> ownerId, createdAt |-> 1, imagePath |-> imagePath]

\* the sections of the page are rendered while it holds a vehicle
VehiclePageShown == vehicleDetail.vehicleData # NoDoc

\* The dialogs of the page are modal: while one is open the page behind it
\* takes no input.
NoDialogOpen ==
  /\ ~isManageInvoiceDialogOpen
  /\ ~invoiceSection.isConfirmDeleteDialogOpen
  /\ ~vehicleDetail.isConfirmDeleteOpen

\* the page as the manager can act on it
VehiclePageReady == VehiclePageShown /\ NoDialogOpen

\* currentImagePreview of EditVehicleForm is set
ImagePreviewShown ==
  \/ editVehicle.selectedImageFile # Null
  \/ /\ ~editVehicle.intentToDeleteImage
     /\ vehicleDetail.vehicleData.imagePath # NullPath

\* a file input that leaves the delete intent as it is
EditVehicleForm_handleFileChange_keepingIntent(file) ==
  /\ VehiclePageReady
  /\ ~editVehicle.isSubmitting
  /\ editVehicle' = [editVehicle EXCEPT !.selectedImageFile = file]

\* handleFileChange with a file chosen
EditVehicleForm_handleFileChange(file) ==
  /\ VehiclePageReady
  /\ ~editVehicle.isSubmitting
  /\ editVehicle' = [editVehicle EXCEPT !.selectedImageFile = file,
                                        !.intentToDeleteImage = FALSE]

EditVehicleForm_handleConfirmDeleteImage ==
  /\ VehiclePageReady
  /\ ~editVehicle.isSubmitting
  /\ ImagePreviewShown
  /\ editVehicle' = [editVehicle EXCEPT !.selectedImageFile = Null,
                                        !.intentToDeleteImage = TRUE]

\* onSubmit of EditVehicleForm up to its first await; values.ownerId is the
\* owner chosen in the form
EditVehicleForm_onSubmit(ownerId) ==
  /\ VehiclePageReady
  /\ ~editVehicle.isSubmitting
  /\ editVehicle.pc = "idle"
  /\ LET vehicle == vehicleDetail.vehicleData
         deleting == /\ editVehicle.intentToDeleteImage
                     /\ editVehicle.selectedImageFile = Null
         replacing == ~deleting /\ editVehicle.selectedImageFile # Null
     IN editVehicle' =
          [editVehicle EXCEPT
             !.isSubmitting = TRUE,
             !.toast = "none",
             !.submitted = [id |-> vehicle.id, ownerId |-> ownerId,
                            imagePath |-> vehicle.imagePath,
                            selectedImageFile |-> editVehicle.selectedImageFile,
                            intentToDeleteImage |-> editVehicle.intentToDeleteImage],
             !.updateData =
                [imagePath |-> IF deleting /\ vehicle.imagePath = NullPath
                               THEN NullPath ELSE Undefined],
             !.pc = IF (deleting \/ replacing) /\ vehicle.imagePath # NullPath
                    THEN "deleteObject"
                    ELSE IF replacing THEN "uploadBytes"
                    ELSE "updateDoc"]

\* await deleteObject(oldImageRef) in either branch: resolves, or rejects
\* into the inner catch
EditVehicleForm_deleteObject ==
  /\ editVehicle.pc = "deleteObject"
  /\ \/ /\ editVehicle.submitted.imagePath \in blobs
        /\ blobs' = blobs \ {editVehicle.submitted.imagePath}
     \/ UNCHANGED blobs
  /\ editVehicle' =
       IF editVehicle.submitted.selectedImageFile = Null
       THEN [editVehicle EXCEPT !.updateData = [imagePath |-> NullPath],
                                !.pc = "updateDoc"]
       ELSE [editVehicle EXCEPT !.pc = "uploadBytes"]

\* the outer catch and the finally of onSubmit
EditVehicleForm_catch(form) ==
  [form EXCEPT !.isSubmitting = FALSE, !.submitted = NoSubmission,
               !.updateData = [imagePath |-> Undefined], !.toast = "error",
               !.pc = "idle"]

\* await uploadBytes(newImageRef, selectedImageFile)
EditVehicleForm_uploadBytes ==
  /\ editVehicle.pc = "uploadBytes"
  /\ \/ /\ blobs' = blobs \cup
                      {VehicleImagePath(editVehicle.submitted,
                                        editVehicle.submitted.selectedImageFile)}
        /\ editVehicle' = [editVehicle EXCEPT !.pc = "getDownloadURL"]
     \/ /\ UNCHANGED blobs
        /\ editVehicle' = EditVehicleForm_catch(editVehicle)

\* updateData.imageUrl = await getDownloadURL(newImageRef);
\* updateData.imagePath = newImageStoragePath
EditVehicleForm_getDownloadURL ==
  /\ editVehicle.pc = "getDownloadURL"
  /\ \/ editVehicle' =
          [editVehicle EXCEPT
             !.updateData =
                [imagePath |->
                   VehicleImagePath(editVehicle.submitted,
                                    editVehicle.submitted.selectedImageFile)],
             !.pc = "updateDoc"]
     \/ editVehicle' = EditVehicleForm_catch(editVehicle)

\* the record updateDoc(vehicleRef, updateData) leaves
VehicleUpdate(existing, ownerId, updateData) ==
  [existing EXCEPT
     !.ownerId = ownerId,
     !.imagePath = IF updateData.imagePath # Undefined
                   THEN updateData.imagePath ELSE @]

\* await updateDoc(vehicleRef, updateData), onVehicleUpdated and the resets
\* that follow it, or the catch
EditVehicleForm_updateDoc ==
  /\ editVehicle.pc = "updateDoc"
  /\ LET id == editVehicle.submitted.id
     IN \/ /\ vehicles[id] # NoDoc
           /\ vehicles' =
                [vehicles EXCEPT
                   ![id] = VehicleUpdate(@, editVehicle.submitted.ownerId,
                                         editVehicle.updateData)]
           /\ vehicleDetail' =
                IF VehiclePageShown
                THEN [vehicleDetail EXCEPT
                        !.vehicleData =
                           VehicleUpdate(@, editVehicle.submitted.ownerId,
                                         editVehicle.updateData)]
                ELSE vehicleDetail
           /\ editVehicle' =
                [editVehicle EXCEPT !.selectedImageFile = Null,
                                    !.intentToDeleteImage = FALSE,
                                    !.isSubmitting = FALSE,
                                    !.submitted = NoSubmission,
                                    !.updateData = [imagePath |-> Undefined],
                                    !.toast = "success",
                                    !.pc = "idle"]
        \/ /\ editVehicle' = EditVehicleForm_catch(editVehicle)
           /\ UNCHANGED <<vehicles, vehicleDetail>>

\* the trigger of the page's confirm dialog, and its cancel
ManagerVehicleDetailPage_openConfirmDelete ==
  /\ VehiclePageReady
  /\ ~vehicleDetail.isConfirmDeleteOpen
  /\ vehicleDetail' = [vehicleDetail EXCEPT !.isConfirmDeleteOpen = TRUE]

ManagerVehicleDetailPage_cancelDelete ==
  /\ vehicleDetail.isConfirmDeleteOpen
  /\ ~vehicleDetail.isDeletingVehicle
  /\ vehicleDetail' = [vehicleDetail EXCEPT !.isConfirmDeleteOpen = FALSE]

\* handleDeleteVehicle up to its first await; deleting is the vehicleData it
\* closed over
handleDeleteVehicle ==
  /\ VehiclePageShown
  /\ vehicleDetail.isConfirmDeleteOpen
  /\ ~vehicleDetail.isDeletingVehicle
  /\ vehicleDetail' =
       [vehicleDetail EXCEPT
          !.isDeletingVehicle = TRUE,
          !.deleting = vehicleDetail.vehicleData,
          !.pc = IF vehicleDetail.vehicleData.imagePath # NullPath
                 THEN "deleteObject" ELSE "deleteDoc"]

\* handleDeleteVehicle: await deleteObject(imageFileRef), or its catch
handleDeleteVehicle_deleteObject ==
  /\ vehicleDetail.pc = "deleteObject"
  /\ \/ /\ vehicleDetail.deleting.imagePath \in blobs
        /\ blobs' = blobs \ {vehicleDetail.deleting.imagePath}
     \/ UNCHANGED blobs
  /\ vehicleDetail' = [vehicleDetail EXCEPT !.pc = "deleteDoc"]

\* handleDeleteVehicle: await deleteDoc(doc(db, "vehicles", vehicleData.id)),
\* router.push('/manager/dashboard') after it, or the catch; the finally
handleDeleteVehicle_deleteDoc ==
  /\ vehicleDetail.pc = "deleteDoc"
  /\ \/ /\ vehicles' = [vehicles EXCEPT ![vehicleDetail.deleting.id] = NoDoc]
        /\ route' = ManagerDashboard
        /\ vehicleDetail' =
             [vehicleDetail EXCEPT !.vehicleData = NoDoc,
                                   !.isDeletingVehicle = FALSE,
                                   !.isConfirmDeleteOpen = FALSE,
                                   !.deleting = NoDoc,
                                   !.pc = "left"]
     \/ /\ UNCHANGED <<vehicles, route>>
        /\ vehicleDetail' =
             [vehicleDetail EXCEPT !.isDeletingVehicle = FALSE,
                                   !.isConfirmDeleteOpen = FALSE,
                                   !.deleting = NoDoc,
                                   !.pc = "idle"]

\* the delete button of an invoice row, and the dialog's cancel
InvoiceManagementSection_openConfirmDelete(id) ==
  /\ VehiclePageReady
  /\ ~invoiceSection.isConfirmDeleteDialogOpen
  /\ invoiceSection.pc = "idle"
  /\ invoices[id] # NoDoc
  /\ invoices[id].vehicleId = vehicleDetail.vehicleData.id
  /\ invoiceSection' =
       [invoiceSection EXCEPT !.invoiceToDeleteId = id,
                              !.invoiceToDeletePdfPath = invoices[id].pdfPath,
                              !.isConfirmDeleteDialogOpen = TRUE]

InvoiceManagementSection_cancelDelete ==
  /\ invoiceSection.isConfirmDeleteDialogOpen
  /\ invoiceSection.pc = "idle"
  /\ invoiceSection' =
       [invoiceSection EXCEPT !.invoiceToDeleteId = Null,
                              !.invoiceToDeletePdfPath = NullPath,
                              !.isConfirmDeleteDialogOpen = FALSE]

\* confirmDeleteInvoice up to its first await
confirmDeleteInvoice ==
  /\ invoiceSection.isConfirmDeleteDialogOpen
  /\ invoiceSection.pc = "idle"
  /\ invoiceSection.invoiceToDeleteId # Null
  /\ invoiceSection' =
       [invoiceSection EXCEPT
          !.pc = IF invoiceSection.invoiceToDeletePdfPath # NullPath
                 THEN "deleteObject" ELSE "deleteDoc"]

\* confirmDeleteInvoice: await deleteObject(pdfFileRef), or its catch
confirmDeleteInvoice_deleteObject ==
  /\ invoiceSection.pc = "deleteObject"
  /\ \/ /\ invoiceSection.invoiceToDeletePdfPath \in blobs
        /\ blobs' = blobs \ {invoiceSection.invoiceToDeletePdfPath}
     \/ UNCHANGED blobs
  /\ invoiceSection' = [invoiceSection EXCEPT !.pc = "deleteDoc"]

\* confirmDeleteInvoice: await deleteDoc(doc(db, "invoices", invoiceToDeleteId)),
\* or the catch; the finally
confirmDeleteInvoice_deleteDoc ==
  /\ invoiceSection.pc = "deleteDoc"
  /\ \/ /\ invoices' = [invoices EXCEPT ![invoiceSection.invoiceToDeleteId] = NoDoc]
        /\ invoiceSection' =
             [invoiceSection EXCEPT !.isConfirmDeleteDialogOpen = FALSE,
                                    !.invoiceToDeleteId = Null,
                                    !.invoiceToDeletePdfPath = NullPath,
                                    !.pc = "idle"]
     \/ /\ UNCHANGED invoices
        /\ invoiceSection' =
             [invoiceSection EXCEPT !.isConfirmDeleteDialogOpen = FALSE,
                                    !.invoiceToDeleteId = Null,
                                    !.invoiceToDeletePdfPath = NullPath,
                                    !.pc = "idle"]

\* what a manager types into the invoice dialog on this page: one accepted
\* line item, with or without a PDF
RecordFormValues ==
  { values \in FormValueChoices :
      values.invoiceServices = <<[quantity |-> 1000, unitPrice |-> 500]>> }

\* form.handleSubmit(onSubmit) of the dialog, with onSubmit's
\* clientIdForInvoice
ManageInvoiceFormDialog_onSubmit(values) ==
  /\ VehiclePageShown
  /\ handleSubmit(values)
  /\ invoiceSection' =
       [invoiceSection EXCEPT
          !.clientIdForInvoice =
             IF isEditMode THEN invoiceToEdit.clientId
             ELSE vehicleDetail.vehicleData.ownerId]

\* the write of the dialog's onSubmit, which ends it
ManageInvoiceFormDialog_write ==
  /\ writeInvoiceAs(invoiceSection.clientIdForInvoice)
  /\ invoiceSection' = [invoiceSection EXCEPT !.clientIdForInvoice = Null]

(***************************************************************************)
(* The records of one vehicle.  The manager has the page of veh1 loaded,   *)
(* its owner u2, and saves and deletes invoices, gives the vehicle another *)
(* owner and deletes it; no image is involved.                             *)
(***************************************************************************)
\* the state of the application outside the vehicle page
outsideVehiclePage == <<authVars, maintenanceItems, pageVars, editProfile, clientDetail>>

VehiclePageLoaded(imagePath) ==
  /\ vehicles = [v \in VehicleIds |->
                   IF v = VehicleId
                   THEN StoredVehicle(VehicleOwnerClientId, imagePath)
                   ELSE NoDoc]
  /\ vehicleDetail =
       [VehicleDetailIdle EXCEPT
          !.vehicleData = WithId(VehicleId,
                                 StoredVehicle(VehicleOwnerClientId, imagePath))]
  /\ editVehicle = EditVehicleIdle
  /\ invoiceSection = InvoiceSectionIdle
  /\ InvoiceFormIdle
  /\ accounts = Uids
  /\ clients = [u \in Uids |->
                  IF u = "u1" THEN ClientRecord("manager", Null)
                  ELSE ClientRecord("client", Null)]
  /\ currentUser = "u1"
  /\ route = ManagerVehiclePage
  /\ NoLoginRunning
  /\ managerDashboard = ManagerDashboardUnmounted
  /\ managerVehicle = ManagerVehicleUnmounted
  /\ managerInvoices = ManagerInvoicesUnmounted
  /\ batch = BatchIdle
  /\ clientVehicle = ClientVehicleUnmounted
  /\ managerClients = ManagerClientsUnmounted
  /\ editProfile = EditProfileIdle
  /\ clientDetail = ClientDetailUnmounted

InitVehicleRecords ==
  /\ invoices = [i \in ListedInvoiceIds |-> NoDoc]
  /\ blobs = {}
  /\ maintenanceItems \in ViewMaintenanceStores
  /\ VehiclePageLoaded(NullPath)

\* the invoice dialog and the invoice rows of the page
InvoiceDialogSteps(ids, choices) ==
  \/ /\ VehiclePageReady
     /\ handleOpenAddDialog
     /\ UNCHANGED <<vehicles, outsideVehiclePage, vehicleDetail, editVehicle,
                    invoiceSection>>
  \/ \E id \in ids :
       /\ VehiclePageReady
       /\ invoices[id] # NoDoc
       /\ invoices[id].vehicleId = vehicleDetail.vehicleData.id
       /\ handleOpenEditDialog(id)
       /\ UNCHANGED <<vehicles, outsideVehiclePage, vehicleDetail, editVehicle,
                      invoiceSection>>
  \/ closeInvoiceDialog
       /\ UNCHANGED <<vehicles, outsideVehiclePage, vehicleDetail, editVehicle,
                      invoiceSection>>
  \/ \E values \in choices :
       ManageInvoiceFormDialog_onSubmit(values)
         /\ UNCHANGED <<vehicles, outsideVehiclePage, vehicleDetail, editVehicle>>
  \/ deleteOldPdf
       /\ UNCHANGED <<vehicles, outsideVehiclePage, vehicleDetail, editVehicle,
                      invoiceSection>>
  \/ uploadPdf
       /\ UNCHANGED <<vehicles, outsideVehiclePage, vehicleDetail, editVehicle,
                      invoiceSection>>
  \/ getDownloadURL
       /\ UNCHANGED <<vehicles, outsideVehiclePage, vehicleDetail, editVehicle,
                      invoiceSection>>
  \/ ManageInvoiceFormDialog_write
       /\ UNCHANGED <<vehicles, outsideVehiclePage, vehicleDetail, editVehicle>>
  \/ \E id \in ids :
       InvoiceManagementSection_openConfirmDelete(id)
         /\ UNCHANGED <<invoiceVars, vehicles, outsideVehiclePage, vehicleDetail,
                        editVehicle>>
  \/ InvoiceManagementSection_cancelDelete
       /\ UNCHANGED <<invoiceVars, vehicles, outsideVehiclePage, vehicleDetail,
                      editVehicle>>
  \/ confirmDeleteInvoice
       /\ UNCHANGED <<invoiceVars, vehicles, outsideVehiclePage, vehicleDetail,
                      editVehicle>>
  \/ confirmDeleteInvoice_deleteObject
       /\ UNCHANGED <<invoices, invoiceFormVars, vehicles, outsideVehiclePage,
                      vehicleDetail, editVehicle>>
  \/ confirmDeleteInvoice_deleteDoc
       /\ UNCHANGED <<blobs, invoiceFormVars, vehicles, outsideVehiclePage,
                      vehicleDetail, editVehicle>>

\* EditVehicleForm without an image, and the deletion of the vehicle
VehicleRecordSteps ==
  \/ \E ownerId \in Uids :
       EditVehicleForm_onSubmit(ownerId)
         /\ UNCHANGED <<invoiceVars, vehicles, outsideVehiclePage, vehicleDetail,
                        invoiceSection>>
  \/ EditVehicleForm_updateDoc
       /\ UNCHANGED <<invoiceVars, outsideVehiclePage, invoiceSection>>
  \/ ManagerVehicleDetailPage_openConfirmDelete
       /\ UNCHANGED <<invoiceVars, vehicles, outsideVehiclePage, editVehicle,
                      invoiceSection>>
  \/ ManagerVehicleDetailPage_cancelDelete
       /\ UNCHANGED <<invoiceVars, vehicles, outsideVehiclePage, editVehicle,
                      invoiceSection>>
  \/ handleDeleteVehicle
       /\ UNCHANGED <<invoiceVars, vehicles, outsideVehiclePage, editVehicle,
                      invoiceSection>>
  \/ handleDeleteVehicle_deleteDoc
       /\ UNCHANGED <<invoiceVars, currentUser, loginVars, maintenanceItems,
                      pageVars, editProfile, clientDetail, editVehicle,
                      invoiceSection>>

NextVehicleRecords ==
  \/ InvoiceDialogSteps(ListedInvoiceIds, RecordFormValues)
  \/ VehicleRecordSteps

SpecVehicleRecords == InitVehicleRecords /\ [][NextVehicleRecords]_vars

(***************************************************************************)
(* EditProfileForm on the profile page of the user who holds the session.  *)
(***************************************************************************)
ProfilePage == "/client/profile"

\* the most uploads of a profile image in one behaviour: Date.now() is part
\* of the path, one value per upload
MaxUploads == 2

\* `profile_images/${client.id}-${Date.now()}-${selectedImageFile.name}`
ProfileImagePath(id, now, file) == <<"profile_images", id, now, file>>

\* client.profileImagePath || null
ProfileImagePathOf(client) ==
  IF "profileImagePath" \in DOMAIN client THEN client.profileImagePath
  ELSE NullPath

\* updateDoc / setDoc(..., { merge: true }): the fields given replace those
\* of the record, the others stay
MergeFields(existing, updateData) ==
  [f \in DOMAIN existing \cup DOMAIN updateData |->
     IF f \in DOMAIN updateData THEN updateData[f] ELSE existing[f]]

\* the user opens the profile page from a page of the portal: the page reads
\* the client record of the session's user and mounts the form with it
ClientProfilePage_getDoc ==
  /\ currentUser # Null
  /\ loginPc = "idle"
  /\ route \in Portals
  /\ editProfile.pc = "idle"
  /\ clients[currentUser] # NoDoc
  /\ route' = ProfilePage
  /\ editProfile' =
       [EditProfileIdle EXCEPT
          !.client = WithId(currentUser, clients[currentUser]),
          !.now = editProfile.now]

EditProfileForm_handleFileChange(file) ==
  /\ route = ProfilePage
  /\ editProfile.client # NoDoc
  /\ ~editProfile.isSubmittingForm
  /\ ~editProfile.isProcessingImage
  /\ editProfile' = [editProfile EXCEPT !.selectedImageFile = file,
                                        !.intentToDeleteImage = FALSE]

EditProfileForm_handleConfirmDeleteImage ==
  /\ route = ProfilePage
  /\ editProfile.client # NoDoc
  /\ ~editProfile.isSubmittingForm
  /\ ~editProfile.isProcessingImage
  /\ \/ editProfile.selectedImageFile # Null
     \/ /\ ~editProfile.intentToDeleteImage
        /\ ProfileImagePathOf(editProfile.client) # NullPath
  /\ editProfile' = [editProfile EXCEPT !.selectedImageFile = Null,
                                        !.intentToDeleteImage = TRUE]

\* onSubmit of EditProfileForm up to its first await; identityDocument is
\* what the user typed
EditProfileForm_onSubmit(identityDocument) ==
  /\ route = ProfilePage
  /\ editProfile.client # NoDoc
  /\ ~editProfile.isSubmittingForm
  /\ editProfile.pc = "idle"
  /\ LET oldPath == ProfileImagePathOf(editProfile.client)
         deleting == /\ editProfile.intentToDeleteImage
                     /\ editProfile.selectedImageFile = Null
         replacing == ~deleting /\ editProfile.selectedImageFile # Null
     IN /\ replacing => editProfile.now <= MaxUploads
        /\ editProfile' =
             [editProfile EXCEPT
                !.isSubmittingForm = TRUE,
                !.toast = "none",
                !.isProcessingImage =
                   ((deleting \/ replacing) /\ oldPath # NullPath) \/ replacing,
                !.values = [identityDocument |-> identityDocument],
                !.newImagePath = IF deleting THEN NullPath ELSE oldPath,
                !.pc = IF (deleting \/ replacing) /\ oldPath # NullPath
                       THEN "deleteObject"
                       ELSE IF replacing THEN "uploadBytes"
                       ELSE "updateDoc"]

\* await deleteObject(storageRefFirebase(storage, client.profileImagePath))
\* in either branch: resolves, or rejects into the inner catch
EditProfileForm_deleteObject ==
  /\ editProfile.pc = "deleteObject"
  /\ \/ /\ ProfileImagePathOf(editProfile.client) \in blobs
        /\ blobs' = blobs \ {ProfileImagePathOf(editProfile.client)}
     \/ UNCHANGED blobs
  /\ editProfile' =
       IF editProfile.selectedImageFile = Null
       THEN [editProfile EXCEPT !.isProcessingImage = FALSE, !.pc = "updateDoc"]
       ELSE [editProfile EXCEPT !.pc = "uploadBytes"]

\* catch (imageError): the flags are cleared and onSubmit returns
EditProfileForm_imageError(form) ==
  [form EXCEPT !.isProcessingImage = FALSE, !.isSubmittingForm = FALSE,
               !.values = NoValues, !.newImagePath = NullPath,
               !.imageStoragePath = NullPath, !.toast = "error",
               !.pc = "idle"]

\* await uploadBytes(fileRef, selectedImageFile)
EditProfileForm_uploadBytes ==
  /\ editProfile.pc = "uploadBytes"
  /\ LET imageStoragePath ==
           ProfileImagePath(editProfile.client.id, editProfile.now,
                            editProfile.selectedImageFile)
     IN \/ /\ blobs' = blobs \cup {imageStoragePath}
           /\ editProfile' =
                [editProfile EXCEPT !.imageStoragePath = imageStoragePath,
                                    !.now = @ + 1,
                                    !.pc = "getDownloadURL"]
        \/ /\ UNCHANGED blobs
           /\ editProfile' =
                [EditProfileForm_imageError(editProfile) EXCEPT !.now = @ + 1]

\* newImageUrl = await getDownloadURL(fileRef); newImagePath = imageStoragePath
EditProfileForm_getDownloadURL ==
  /\ editProfile.pc = "getDownloadURL"
  /\ \/ editProfile' =
          [editProfile EXCEPT !.newImagePath = editProfile.imageStoragePath,
                              !.isProcessingImage = FALSE,
                              !.pc = "updateDoc"]
     \/ editProfile' = EditProfileForm_imageError(editProfile)

\* an updateData that names the role
ProfileUpdateData_withRole(values, newImagePath) ==
  [identityDocument |-> values.identityDocument,
   profileImagePath |-> newImagePath,
   role |-> "client",
   updatedAt |-> "now"]

\* updateData of onSubmit: no role, no isActive, no email
ProfileUpdateData(values, newImagePath) ==
  [identityDocument |-> values.identityDocument,
   profileImagePath |-> newImagePath,
   updatedAt |-> "now"]

\* await updateDoc(clientRef, updateData), onProfileUpdated and the resets
\* that follow it, or the catch; the finally
EditProfileForm_updateDoc ==
  /\ editProfile.pc = "updateDoc"
  /\ LET id == editProfile.client.id
         updateData == ProfileUpdateData(editProfile.values,
                                         editProfile.newImagePath)
     IN \/ /\ clients[id] # NoDoc
           /\ clients' = [clients EXCEPT ![id] = MergeFields(@, updateData)]
           /\ editProfile' =
                [editProfile EXCEPT
                   !.client = MergeFields(@, updateData),
                   !.selectedImageFile = Null,
                   !.intentToDeleteImage = FALSE,
                   !.isSubmittingForm = FALSE,
                   !.values = NoValues,
                   !.newImagePath = NullPath,
                   !.imageStoragePath = NullPath,
                   !.toast = "success",
                   !.pc = "idle"]
        \/ /\ UNCHANGED clients
           /\ editProfile' =
                [editProfile EXCEPT
                   !.isSubmittingForm = FALSE,
                   !.values = NoValues,
                   !.newImagePath = NullPath,
                   !.imageStoragePath = NullPath,
                   !.toast = "error",
                   !.pc = "idle"]

(***************************************************************************)
(* The flows that combine blob operations with a record write: the invoice *)
(* dialog and the invoice rows, EditVehicleForm with an image and the      *)
(* deletion of the vehicle on the page of veh1, and EditProfileForm on the *)
(* manager's profile page.  The behaviour starts on either page.           *)
(***************************************************************************)
\* the state of the application outside the profile page
outsideProfilePage ==
  <<invoices, invoiceFormVars, accounts, currentUser, route, loginFlow, loginPc,
    loginUser, loginSnap, clientSnap, dataVars, pageVars, vehicleDetail,
    editVehicle, invoiceSection, clientDetail>>

ProfilePageLoaded ==
  /\ vehicles = [v \in VehicleIds |->
                   IF v = VehicleId
                   THEN StoredVehicle(VehicleOwnerClientId, NullPath)
                   ELSE NoDoc]
  /\ vehicleDetail = VehicleDetailIdle
  /\ editVehicle = EditVehicleIdle
  /\ invoiceSection = InvoiceSectionIdle
  /\ InvoiceFormIdle
  /\ accounts = Uids
  /\ clients = [u \in Uids |->
                  IF u = "u1" THEN ClientRecord("manager", Null)
                  ELSE ClientRecord("client", Null)]
  /\ currentUser = "u1"
  /\ route = ProfilePage
  /\ NoLoginRunning
  /\ managerDashboard = ManagerDashboardUnmounted
  /\ managerVehicle = ManagerVehicleUnmounted
  /\ managerInvoices = ManagerInvoicesUnmounted
  /\ batch = BatchIdle
  /\ clientVehicle = ClientVehicleUnmounted
  /\ managerClients = ManagerClientsUnmounted
  /\ editProfile =
       [EditProfileIdle EXCEPT
          !.client = WithId("u1", ClientRecord("manager", Null))]
  /\ clientDetail = ClientDetailUnmounted

InitBlobFlows ==
  /\ invoices = [i \in InvoiceIds |-> NoDoc]
  /\ blobs = {}
  /\ maintenanceItems = [mi \in MaintenanceIds |-> NoDoc]
  /\ VehiclePageLoaded(NullPath) \/ ProfilePageLoaded

\* what the manager submits in the invoice dialog: with no PDF, or with one
\* of two files
BlobFormValues ==
  { [values EXCEPT !.pdfFile = pdfFile] :
      values \in RecordFormValues, pdfFile \in {Null, "scan.pdf", "copy.pdf"} }

\* EditVehicleForm with its image, and the deletion of the vehicle
VehicleImageSteps ==
  \/ \E file \in ImageFiles :
       EditVehicleForm_handleFileChange(file)
         /\ UNCHANGED <<invoiceVars, vehicles, outsideVehiclePage, vehicleDetail,
                        invoiceSection>>
  \/ EditVehicleForm_handleConfirmDeleteImage
       /\ UNCHANGED <<invoiceVars, vehicles, outsideVehiclePage, vehicleDetail,
                      invoiceSection>>
  \/ EditVehicleForm_onSubmit(VehicleOwnerClientId)
       /\ UNCHANGED <<invoiceVars, vehicles, outsideVehiclePage, vehicleDetail,
                      invoiceSection>>
  \/ EditVehicleForm_deleteObject
       /\ UNCHANGED <<invoices, invoiceFormVars, vehicles, outsideVehiclePage,
                      vehicleDetail, invoiceSection>>
  \/ EditVehicleForm_uploadBytes
       /\ UNCHANGED <<invoices, invoiceFormVars, vehicles, outsideVehiclePage,
                      vehicleDetail, invoiceSection>>
  \/ EditVehicleForm_getDownloadURL
       /\ UNCHANGED <<invoiceVars, vehicles, outsideVehiclePage, vehicleDetail,
                      invoiceSection>>
  \/ EditVehicleForm_updateDoc
       /\ UNCHANGED <<invoiceVars, outsideVehiclePage, invoiceSection>>
  \/ ManagerVehicleDetailPage_openConfirmDelete
       /\ UNCHANGED <<invoiceVars, vehicles, outsideVehiclePage, editVehicle,
                      invoiceSection>>
  \/ ManagerVehicleDetailPage_cancelDelete
       /\ UNCHANGED <<invoiceVars, vehicles, outsideVehiclePage, editVehicle,
                      invoiceSection>>
  \/ handleDeleteVehicle
       /\ UNCHANGED <<invoiceVars, vehicles, outsideVehiclePage, editVehicle,
                      invoiceSection>>
  \/ handleDeleteVehicle_deleteObject
       /\ UNCHANGED <<invoices, invoiceFormVars, vehicles, outsideVehiclePage,
                      editVehicle, invoiceSection>>
  \/ handleDeleteVehicle_deleteDoc
       /\ UNCHANGED <<invoiceVars, currentUser, loginVars, maintenanceItems,
                      pageVars, editProfile, clientDetail, editVehicle,
                      invoiceSection>>

\* EditProfileForm with its image
ProfileImageSteps ==
  \/ \E file \in ImageFiles :
       EditProfileForm_handleFileChange(file)
         /\ UNCHANGED <<blobs, clients, outsideProfilePage>>
  \/ EditProfileForm_handleConfirmDeleteImage
       /\ UNCHANGED <<blobs, clients, outsideProfilePage>>
  \/ \E identityDocument \in {"12345678Z"} :
       EditProfileForm_onSubmit(identityDocument)
         /\ UNCHANGED <<blobs, clients, outsideProfilePage>>
  \/ EditProfileForm_deleteObject /\ UNCHANGED <<clients, outsideProfilePage>>
  \/ EditProfileForm_uploadBytes /\ UNCHANGED <<clients, outsideProfilePage>>
  \/ EditProfileForm_getDownloadURL
       /\ UNCHANGED <<blobs, clients, outsideProfilePage>>
  \/ EditProfileForm_updateDoc /\ UNCHANGED <<blobs, outsideProfilePage>>

NextBlobFlows ==
  \/ InvoiceDialogSteps(InvoiceIds, BlobFormValues)
  \/ VehicleImageSteps
  \/ ProfileImageSteps

SpecBlobFlows == InitBlobFlows /\ [][NextBlobFlows]_vars

(***************************************************************************)
(* Sign-in, registration and the self-service profile: whoever holds the   *)
(* session opens the profile page and saves the form, with no image.       *)
(***************************************************************************)
ProfileSteps ==
  \/ ClientProfilePage_getDoc
       /\ UNCHANGED <<invoiceVars, accounts, clients, currentUser, loginFlow,
                      loginPc, loginUser, loginSnap, clientSnap, dataVars,
                      pageVars, vehicleDetail, editVehicle, invoiceSection,
                      clientDetail>>
  \/ \E identityDocument \in {"12345678Z"} :
       EditProfileForm_onSubmit(identityDocument)
         /\ UNCHANGED <<blobs, clients, outsideProfilePage>>
  \/ EditProfileForm_updateDoc /\ UNCHANGED <<blobs, outsideProfilePage>>

InitProfile == InitAuth

NextProfile ==
  \/ NextAuth
  \/ ProfileSteps

SpecProfile == InitProfile /\ [][NextProfile]_vars

(***************************************************************************)
(* C21.  In every flow that combines blob operations with a record write   *)
(* (invoice save, invoice delete, vehicle edit, vehicle delete, profile    *)
(* edit) the record is written or deleted only by the step that ends the   *)
(* flow, after each deleteObject and uploadBytes of the flow has resolved  *)
(* or rejected; a step at which a blob operation of a flow is pending      *)
(* changes no record, and no blob changes at the step of a record          *)
(* operation.                                                              *)
(***************************************************************************)
\* the places of a flow at which one of its blob operations is pending
BlobOperationPlaces == {"deleteObject", "uploadBytes", "getDownloadURL"}

InvoiceRecordStep ==
  \/ submitPc = "write" /\ submitPc' = "idle"
  \/ invoiceSection.pc = "deleteDoc" /\ invoiceSection'.pc = "idle"

VehicleRecordStep ==
  \/ editVehicle.pc = "updateDoc" /\ editVehicle'.pc = "idle"
  \/ vehicleDetail.pc = "deleteDoc" /\ vehicleDetail'.pc \in {"idle", "left"}

ProfileRecordStep == editProfile.pc = "updateDoc" /\ editProfile'.pc = "idle"

\* a step of a flow from a place where a blob operation is pending
BlobStep ==
  \/ submitPc \in BlobOperationPlaces /\ submitPc' # submitPc
  \/ invoiceSection.pc \in BlobOperationPlaces
       /\ invoiceSection'.pc # invoiceSection.pc
  \/ editVehicle.pc \in BlobOperationPlaces /\ editVehicle'.pc # editVehicle.pc
  \/ vehicleDetail.pc \in BlobOperationPlaces
       /\ vehicleDetail'.pc # vehicleDetail.pc
  \/ editProfile.pc \in BlobOperationPlaces /\ editProfile'.pc # editProfile.pc

C21_RecordOperationAfterBlobOperations ==
  [][/\ invoices' # invoices => InvoiceRecordStep
     /\ vehicles' # vehicles => VehicleRecordStep
     /\ clients' # clients => ProfileRecordStep
     /\ blobs' # blobs => BlobStep
     /\ BlobStep => <<invoices, vehicles, clients>>' = <<invoices, vehicles, clients>>]_vars

\* an invoice saved after its old PDF was deleted and the new one uploaded
C21_Witness ==
  /\ submitOutcome = "saved"
  /\ submitOps = 3
  /\ \E id \in DOMAIN invoices :
       /\ invoices[id] # NoDoc
       /\ invoices[id].pdfPath \in blobs

(***************************************************************************)
(* C22.  When the upload of a replacement profile image fails, the edit is *)
(* abandoned with the prior state kept: the client record is not written   *)
(* and the image blob the record names is still in the blob store.         *)
(***************************************************************************)
ProfileUploadFailed ==
  /\ editProfile.pc = "uploadBytes"
  /\ editProfile'.pc = "idle"

C22_FailedUploadKeepsPriorState ==
  [][ProfileUploadFailed =>
        LET id == editProfile.client.id
        IN /\ clients' = clients
           /\ ProfileImagePathOf(clients[id]) # NullPath =>
                ProfileImagePathOf(clients[id]) \in blobs']_vars

(***************************************************************************)
(* C23.  A list reload that fails keeps the list and the reference data    *)
(* the view had loaded before it.  fetchData of the dashboard leaves       *)
(* allVehicles alone until its last step and clients until the clients are *)
(* read: when it ends at the read of the clients, which only a failed read *)
(* does, allVehicles and clients are still the ones loaded before, and     *)
(* when it ends at the read of the vehicles without showing the vehicles   *)
(* read, allVehicles is.                                                   *)
(***************************************************************************)
DashboardClientsReadFailed ==
  /\ managerDashboard.pc = "getDocs.clients"
  /\ managerDashboard'.pc = "idle"

DashboardVehiclesReadFailed ==
  /\ managerDashboard.pc = "getDocs.vehicles"
  /\ managerDashboard'.pc = "idle"
  /\ managerDashboard'.allVehicles #
       EnrichedVehicles(SnapshotDocs(vehicles, AnyDoc),
                        managerDashboard.clientsData)

C23_FailedReloadKeepsLists ==
  [][/\ DashboardClientsReadFailed \/ DashboardVehiclesReadFailed =>
          managerDashboard'.allVehicles = managerDashboard.allVehicles
     /\ DashboardClientsReadFailed =>
          managerDashboard'.clients = managerDashboard.clients]_vars

(***************************************************************************)
(* C24.  The flows that write a blob and a record have no rollback.  When  *)
(* an invoice edit reaches its record write with the old PDF deleted and   *)
(* no replacement stored, the write, whether it succeeds or fails, leaves  *)
(* the record naming the deleted blob and does not restore it; when an     *)
(* invoice delete reaches its record delete, that step leaves every blob   *)
(* as it is and either removes the record or leaves it whole, so a PDF     *)
(* whose deleteObject failed stays behind and a record whose deleteDoc     *)
(* failed keeps the reference to a deleted PDF.  States with such a        *)
(* dangling reference and such an orphaned blob are reachable.             *)
(***************************************************************************)
\* invoice id names a PDF that is not in the blob store
DanglingPdfReference(id) ==
  /\ invoices[id] # NoDoc
  /\ invoices[id].pdfPath # NullPath
  /\ invoices[id].pdfPath \notin blobs

\* a PDF in the blob store that no invoice names
OrphanedPdf(path) ==
  /\ path \in blobs
  /\ path[1] = "invoice_pdfs"
  /\ \A id \in DOMAIN invoices :
       invoices[id] = NoDoc \/ invoices[id].pdfPath # path

\* onSubmit is at its record write in edit mode, the old PDF is deleted and
\* no PDF of this submission is in the store
OldPdfDeletedNoneStored ==
  /\ submitPc = "write"
  /\ isEditMode
  /\ DanglingPdfReference(invoiceToEdit.id)
  /\ invoices[invoiceToEdit.id].pdfPath = invoiceToEdit.pdfPath
  /\ formValues.pdfFile # Null => PdfStoragePath(formValues) \notin blobs

EditKeepsDanglingReference ==
  OldPdfDeletedNoneStored /\ submitPc' = "idle" =>
    /\ blobs' = blobs
    /\ invoices'[invoiceToEdit.id] # NoDoc
    /\ invoices'[invoiceToEdit.id].pdfPath = invoiceToEdit.pdfPath

DeleteStepCompensatesNothing ==
  invoiceSection.pc = "deleteDoc" /\ invoiceSection'.pc = "idle" =>
    /\ blobs' = blobs
    /\ \/ invoices' = invoices
       \/ invoices' =
            [invoices EXCEPT ![invoiceSection.invoiceToDeleteId] = NoDoc]

C24_NoRollback ==
  [][EditKeepsDanglingReference /\ DeleteStepCompensatesNothing]_vars

\* with no handler running, an invoice names a deleted PDF and another PDF
\* is in the store with no invoice naming it
C24_Witness ==
  /\ submitPc = "idle"
  /\ invoiceSection.pc = "idle"
  /\ \E id \in DOMAIN invoices : DanglingPdfReference(id)
  /\ \E path \in blobs : OrphanedPdf(path)

(***************************************************************************)
(* C25.  Every invoice record and every maintenance item record belongs to *)
(* a vehicle record that exists: its vehicleId names a vehicle that is in  *)
(* the datastore.                                                          *)
(***************************************************************************)
C25_RecordsBelongToExistingVehicle ==
  /\ \A i \in DOMAIN invoices :
       invoices[i] # NoDoc => vehicles[invoices[i].vehicleId] # NoDoc
  /\ \A mi \in DOMAIN maintenanceItems :
       maintenanceItems[mi] # NoDoc =>
         vehicles[maintenanceItems[mi].vehicleId] # NoDoc

(***************************************************************************)
(* C26.  The clientId of every invoice record is the ownerId of the        *)
(* vehicle record it belongs to.                                           *)
(***************************************************************************)
C26_InvoiceClientIsVehicleOwner ==
  \A i \in DOMAIN invoices :
    (invoices[i] # NoDoc /\ vehicles[invoices[i].vehicleId] # NoDoc) =>
      invoices[i].clientId = vehicles[invoices[i].vehicleId].ownerId

(***************************************************************************)
(* C27.  A client record that a sign-in or registration flow creates has   *)
(* role "client" and isActive false, and no step of sign-in, registration  *)
(* or of the self-service profile form changes the role or the isActive    *)
(* field of a record that exists.                                          *)
(***************************************************************************)
CreatedAsInactiveClient ==
  \A u \in Uids :
    clients[u] = NoDoc /\ clients'[u] # NoDoc =>
      clients'[u].role = "client" /\ ~clients'[u].isActive

RoleAndActivityKept ==
  \A u \in Uids :
    clients[u] # NoDoc =>
      /\ clients'[u] # NoDoc
      /\ clients'[u].role = clients[u].role
      /\ clients'[u].isActive = clients[u].isActive

C27_RoleAndActivityOutOfReach ==
  [][CreatedAsInactiveClient /\ RoleAndActivityKept]_vars

\* the profile form has saved the record of an active manager, which is an
\* active manager still, and a sign-in has created the record of the other
\* user
C27_Witness ==
  \E u, v \in Uids :
    /\ clients[u] # NoDoc
    /\ clients[u].identityDocument = "12345678Z"
    /\ clients[u].role = "manager"
    /\ clients[u].isActive
    /\ clients[v] = newClientData

(***************************************************************************)
(* C28.  In EditVehicleForm and EditProfileForm the intent to delete the   *)
(* image and a selected replacement file are never both set.  A submit     *)
(* that succeeds leaves the record's image path null when the intent is    *)
(* set, the path of the uploaded file when a file is selected and the path *)
(* it had when neither is set, and it clears the intent and the file.      *)
(***************************************************************************)
ImageChoiceExclusive ==
  /\ ~(editVehicle.intentToDeleteImage /\ editVehicle.selectedImageFile # Null)
  /\ ~(editProfile.intentToDeleteImage /\ editProfile.selectedImageFile # Null)

\* the step of EditVehicleForm.onSubmit that ends with the success toast
VehicleSubmitSucceeded ==
  /\ editVehicle.pc = "updateDoc"
  /\ editVehicle'.toast = "success"

VehicleImageEffect ==
  VehicleSubmitSucceeded =>
    LET id == editVehicle.submitted.id
    IN /\ vehicles'[id].imagePath =
            IF editVehicle.intentToDeleteImage THEN NullPath
            ELSE IF editVehicle.selectedImageFile # Null
                 THEN VehicleImagePath([id |-> id], editVehicle.selectedImageFile)
                 ELSE vehicles[id].imagePath
       /\ editVehicle'.selectedImageFile = Null
       /\ ~editVehicle'.intentToDeleteImage

\* the step of EditProfileForm.onSubmit that ends with the success toast
ProfileSubmitSucceeded ==
  /\ editProfile.pc = "updateDoc"
  /\ editProfile'.toast = "success"

ProfileImageEffect ==
  ProfileSubmitSucceeded =>
    LET id == editProfile.client.id
    IN /\ ProfileImagePathOf(clients'[id]) =
            IF editProfile.intentToDeleteImage THEN NullPath
            ELSE IF editProfile.selectedImageFile # Null
                 THEN ProfileImagePath(id, editProfile.now - 1,
                                       editProfile.selectedImageFile)
                 ELSE ProfileImagePathOf(clients[id])
       /\ editProfile'.selectedImageFile = Null
       /\ ~editProfile'.intentToDeleteImage

C28_ImageChoiceAndItsEffect ==
  /\ []ImageChoiceExclusive
  /\ [][VehicleImageEffect /\ ProfileImageEffect]_vars

\* a submit with a file selected has stored the path of its upload, and a
\* submit with the delete intent is about to write null over it
C28_Witness ==
  /\ editProfile.pc = "updateDoc"
  /\ editProfile.intentToDeleteImage
  /\ editProfile.selectedImageFile = Null
  /\ ProfileImagePathOf(clients["u1"]) = ProfileImagePath("u1", 1, "car.jpg")
  /\ editProfile.newImagePath = NullPath

(***************************************************************************)
(* C29.  No two invoice records name the same PDF blob: the pdfPath of two *)
(* distinct invoices that have one are different paths.                    *)
(***************************************************************************)
C29_PdfPathsAreDistinct ==
  \A i, j \in DOMAIN invoices :
    (/\ i # j
     /\ invoices[i] # NoDoc
     /\ invoices[j] # NoDoc
     /\ invoices[i].pdfPath # NullPath) =>
      invoices[i].pdfPath # invoices[j].pdfPath

(***************************************************************************)
(* C30.  On the manager's client page every load that was started ends     *)
(* with isLoadingClient and isLoadingVehicles both false, whichever way it *)
(* ends: once no run of fetchClientData is pending, neither flag is set.   *)
(***************************************************************************)
ClientDetailLoadsEnded ==
  /\ clientDetail.runs # <<>>
  /\ \A r \in DOMAIN clientDetail.runs : clientDetail.runs[r].pc = "done"

C30_LoadEndsWithBothFlagsFalse ==
  ClientDetailLoadsEnded =>
    /\ ~clientDetail.isLoadingClient
    /\ ~clientDetail.isLoadingVehicles

====
